---- MODULE Spec2Model ----
(***************************************************************************)
(* Model of the taskengine dispatch engine (package taskengine):           *)
(*   - taskStatMap and its pick policy            (taskstat.go)            *)
(*   - Tasks.remove, WorkerTasks.Clone            (worker.go)              *)
(*   - Event classification and retention filters (event.go)              *)
(*   - NewEngine, Execute, ExecuteEvents          (engine.go)              *)
(* Every goroutine of ExecuteEvents is a process of the model; a step of   *)
(* a process runs from one channel operation to the next one.  Channels    *)
(* are unbuffered: a send and its receive are one joint step, and the      *)
(* close of an input channel is one step with the end of the range loops   *)
(* that were blocked on it.                                                *)
(***************************************************************************)
EXTENDS Integers, Sequences, FiniteSets, TLC

\* ------------------------------------------------------------------ bounds
\* Size of the engines explored: the worker instances plus the task
\* listings (over all workers) of an engine are at most MaxLoad.
MaxLoad == 4

\* Runs of ExecuteEvents started on one engine.
MaxRuns == 2

\* The counts of the status maps given to pick are at most MaxCount.
MaxCount == 1

\* const maxInstances = 100
maxInstances == 100

\* Worker and task identifiers of the engines explored.
\* TaskID is an ordered string type; the model uses naturals with the same order.
WorkerIDs == <<"w1", "w2">>
TaskIDs == {1, 2, 3}

\* --------------------------------------------------------------- results
\* A Result is nil or carries an error: nil (success), context.Canceled
\* or any other error.
NilResult == "nil"
Results == {"success", "error", "canceled"}

\* The Results given to the functions on events: those of the runs, one
\* whose error wraps context.Canceled and one with another context error.
AnyResults == Results \cup {"wrapped", "deadline"}

\* Result.Error()
Error(res) ==
    IF res = "success" THEN "nil"
    ELSE IF res = "canceled" THEN "context.Canceled"
    ELSE IF res = "wrapped" THEN "wrapped context.Canceled"
    ELSE IF res = "deadline" THEN "context.DeadlineExceeded"
    ELSE "testing error"

\* err.Unwrap(): the error wrapped by err, "nil" if none.
Unwrap(err) == IF err = "wrapped context.Canceled" THEN "context.Canceled" ELSE "nil"

\* Mutant of IsCanceledErr: the error is compared, not unwrapped.
IsCanceledErr_NoUnwrap(err) == err = "context.Canceled"

\* errors.Is(err, context.Canceled): err or an error it wraps is the target.
RECURSIVE IsCanceledErr(_)
IsCanceledErr(err) ==
    IF err = "nil" THEN FALSE
    ELSE IF err = "context.Canceled" THEN TRUE
    ELSE IsCanceledErr(Unwrap(err))

\* ------------------------------------------------------------- TaskStat
ZeroStat == [todo |-> 0, doing |-> 0, done |-> 0, success |-> 0]

\* Mutant of StatCompleted: the attempts in progress are not looked at.
StatCompleted_TodoOnly(stat) == stat.todo = 0

\* TaskStat.Completed
StatCompleted(stat) == (stat.todo = 0) /\ (stat.doing = 0)

\* taskStatMap.completed
completed(statmap) == \A tid \in DOMAIN statmap : StatCompleted(statmap[tid])

\* taskStatMap.todo
todo(statmap, tid) ==
    IF tid \in DOMAIN statmap
    THEN [statmap EXCEPT ![tid].todo = @ + 1]
    ELSE statmap @@ (tid :> [ZeroStat EXCEPT !.todo = 1])

\* Mutant of doing: the todo count is not decremented.
doing_KeepsTodo(statmap, tid) ==
    [statmap EXCEPT ![tid].doing = @ + 1]

\* taskStatMap.doing
doing(statmap, tid) ==
    [statmap EXCEPT ![tid].todo = @ - 1, ![tid].doing = @ + 1]

\* Mutant of done: the doing count is not decremented on a failure.
done_KeepsDoing(statmap, tid, success) ==
    [statmap EXCEPT ![tid].doing = IF success THEN @ - 1 ELSE @,
                    ![tid].done = @ + 1,
                    ![tid].success = IF success THEN @ + 1 ELSE @]

\* Mutant of done: a failed attempt is not counted as done.
done_OnlySuccess(statmap, tid, success) ==
    [statmap EXCEPT ![tid].doing = @ - 1,
                    ![tid].done = IF success THEN @ + 1 ELSE @,
                    ![tid].success = IF success THEN @ + 1 ELSE @]

\* Mutant of done: every result is counted as a success.
done_SuccessAlways(statmap, tid, success) ==
    [statmap EXCEPT ![tid].doing = @ - 1,
                    ![tid].done = @ + 1,
                    ![tid].success = @ + 1]

\* taskStatMap.done
done(statmap, tid, success) ==
    [statmap EXCEPT ![tid].doing = @ - 1,
                    ![tid].done = @ + 1,
                    ![tid].success = IF success THEN @ + 1 ELSE @]

\* The inner loop of newTaskStatusMap over one task list.
RECURSIVE todoList(_, _)
todoList(statmap, ts) ==
    IF ts = <<>> THEN statmap
    ELSE todoList(todo(statmap, Head(ts).tid), Tail(ts))

\* newTaskStatusMap: todo() once per listing (the map order is irrelevant).
RECURSIVE todoWorkers(_, _, _)
todoWorkers(statmap, widtasks, wids) ==
    IF wids = {} THEN statmap
    ELSE LET w == CHOOSE x \in wids : TRUE
         IN  todoWorkers(todoList(statmap, widtasks[w]), widtasks, wids \ {w})

newTaskStatusMap(widtasks) == todoWorkers(<<>>, widtasks, DOMAIN widtasks)

\* Mutant of pickLoop: between two candidates with equal counts and equal
\* TaskID the later one is preferred.
RECURSIVE pickLoop_LaterOnTie(_, _, _, _)
pickLoop_LaterOnTie(statmap, ts, j, j0) ==
    IF j >= Len(ts) THEN j0
    ELSE LET s  == statmap[ts[j + 1].tid]
             s0 == statmap[ts[j0 + 1].tid]
             skip ==
                 \/ s.success > s0.success
                 \/ /\ s.success = s0.success
                    /\ \/ s.doing > s0.doing
                       \/ /\ s.doing = s0.doing
                          /\ \/ s.todo > s0.todo
                             \/ /\ s.todo = s0.todo
                                /\ ts[j + 1].tid > ts[j0 + 1].tid
         IN  pickLoop_LaterOnTie(statmap, ts, j + 1, IF skip THEN j0 ELSE j)

\* Mutant of pickLoop: the TaskID is not compared; among tasks with equal
\* counts the first of the list is kept.
RECURSIVE pickLoop_NoTaskID(_, _, _, _)
pickLoop_NoTaskID(statmap, ts, j, j0) ==
    IF j >= Len(ts) THEN j0
    ELSE LET s  == statmap[ts[j + 1].tid]
             s0 == statmap[ts[j0 + 1].tid]
             skip ==
                 \/ s.success > s0.success
                 \/ /\ s.success = s0.success
                    /\ \/ s.doing > s0.doing
                       \/ /\ s.doing = s0.doing
                          /\ s.todo >= s0.todo
         IN  pickLoop_NoTaskID(statmap, ts, j + 1, IF skip THEN j0 ELSE j)

\* The loop of pick from index j on (0-based, as in the source), with the
\* best index j0 so far; s0 is statmap[ts[j0].TaskID()].
RECURSIVE pickLoop(_, _, _, _)
pickLoop(statmap, ts, j, j0) ==
    IF j >= Len(ts) THEN j0
    ELSE LET s  == statmap[ts[j + 1].tid]
             s0 == statmap[ts[j0 + 1].tid]
             skip ==
                 \/ s.success > s0.success
                 \/ /\ s.success = s0.success
                    /\ \/ s.doing > s0.doing
                       \/ /\ s.doing = s0.doing
                          /\ \/ s.todo > s0.todo
                             \/ /\ s.todo = s0.todo
                                /\ ts[j + 1].tid >= ts[j0 + 1].tid
         IN  pickLoop(statmap, ts, j + 1, IF skip THEN j0 ELSE j)

\* Mutant of pick: the first task of the list.
pick_First(statmap, ts) ==
    IF Len(ts) = 0 THEN -1 ELSE 0

\* taskStatMap.pick: -1 for the empty list, else a 0-based index.
pick(statmap, ts) ==
    IF Len(ts) = 0 THEN -1 ELSE pickLoop(statmap, ts, 1, 0)

\* Mutant of remove: the list shrinks by one but the last task does not
\* take the place of the i-th.
remove_PopOnly(ts, i) == SubSeq(ts, 1, Len(ts) - 1)

\* Mutant of remove: the task stays in the list.
remove_Nothing(ts, i) == ts

\* Tasks.remove(i), i 0-based: the list after the removal (the last task
\* takes the place of the i-th, the list shrinks by one).
remove(ts, i) ==
    LET L1 == Len(ts) - 1
    IN  SubSeq([ts EXCEPT ![i + 1] = ts[L1 + 1]], 1, L1)

\* WorkerTasks.Clone: a new map with a fresh copy of each list.
Clone(wts) == [w \in DOMAIN wts |-> <<>> \o wts[w]]

\* widtasks[wid] of a Go map: the nil list for a missing key.
TasksOf(wts, wid) == IF wid \in DOMAIN wts THEN wts[wid] ELSE <<>>

\* ---------------------------------------------------------------- events
\* Event.Type: an event is a record with the Result (NilResult for Start).
Type(e) ==
    IF e.res = NilResult THEN "Start"
    ELSE IF Error(e.res) = "nil" THEN "Success"
    ELSE IF IsCanceledErr(Error(e.res)) THEN "Canceled"
    ELSE "Error"

\* (*Event).Type of a pointer: Nil for the nil pointer.
TypeOf(p) == IF p = <<>> THEN "Nil" ELSE Type(p[1])

\* Mutant of IsResult: every event passes, Start events too.
IsResult_Any(e) == TRUE

\* IsResult: the event has a non-nil result.
IsResult(e) == e.res # NilResult

\* Mutant of IsFirstSuccessOrLastResult: every success passes.
IsFirstSuccessOrLastResult_AnySuccess(e) ==
    IF ~IsResult(e) THEN FALSE
    ELSE IF Error(e.res) = "nil" THEN TRUE
    ELSE e.stat.todo = 0 /\ e.stat.doing = 0 /\ e.stat.success = 0

\* Mutant of IsFirstSuccessOrLastResult: the last result passes even if a
\* success was found before.
IsFirstSuccessOrLastResult_NoSuccessTest(e) ==
    IF ~IsResult(e) THEN FALSE
    ELSE IF Error(e.res) = "nil" THEN e.stat.success = 1
    ELSE e.stat.todo = 0 /\ e.stat.doing = 0

\* IsFirstSuccessOrLastResult
IsFirstSuccessOrLastResult(e) ==
    IF ~IsResult(e) THEN FALSE
    ELSE IF Error(e.res) = "nil" THEN e.stat.success = 1
    ELSE e.stat.todo = 0 /\ e.stat.doing = 0 /\ e.stat.success = 0

\* Mutant of IsResultUntilFirstSuccess: a failure passes after a success too.
IsResultUntilFirstSuccess_AnyFailure(e) ==
    IF ~IsResult(e) THEN FALSE
    ELSE IF Error(e.res) = "nil" THEN e.stat.success = 1
    ELSE TRUE

\* Mutant of IsResultUntilFirstSuccess: every success passes.
IsResultUntilFirstSuccess_AnySuccess(e) ==
    IF ~IsResult(e) THEN FALSE
    ELSE IF Error(e.res) = "nil" THEN TRUE
    ELSE e.stat.success = 0

\* IsResultUntilFirstSuccess
IsResultUntilFirstSuccess(e) ==
    IF ~IsResult(e) THEN FALSE
    ELSE IF Error(e.res) = "nil" THEN e.stat.success = 1
    ELSE e.stat.success = 0

\* Mutant of IsSuccessOrError: of the successes of a task only the first
\* passes.
IsSuccessOrError_FirstSuccess(e) ==
    IF ~IsResult(e) THEN FALSE
    ELSE IF Error(e.res) = "nil" THEN e.stat.success = 1
    ELSE ~IsCanceledErr(Error(e.res))

\* Mutant of IsSuccessOrError: the cancellation test is missing.
IsSuccessOrError_NoCancelTest(e) == IsResult(e)

\* IsSuccessOrError
IsSuccessOrError(e) ==
    IF ~IsResult(e) THEN FALSE
    ELSE ~IsCanceledErr(Error(e.res))

\* The filters applied to a pointer: IsResult is false for the nil pointer,
\* and the other filters test IsResult first.
IsResultOf(p) == p # <<>> /\ IsResult(p[1])
IsFirstSuccessOrLastResultOf(p) == p # <<>> /\ IsFirstSuccessOrLastResult(p[1])
IsResultUntilFirstSuccessOf(p) == p # <<>> /\ IsResultUntilFirstSuccess(p[1])
IsSuccessOrErrorOf(p) == p # <<>> /\ IsSuccessOrError(p[1])

\* Mode values; "Events" stands for a run started by ExecuteEvents itself,
\* whose event channel is read by the caller.
Modes == {"AllResults", "SuccessOrErrorResults",
          "ResultsUntilFirstSuccess", "FirstSuccessOrLastResult"}

\* Mutant of exportResult: the filter of the default case for every mode.
exportResult_DefaultOnly(m, e) == IsResult(e)

\* The switch of Execute choosing the export filter of a mode.
exportResult(m, e) ==
    IF m = "FirstSuccessOrLastResult" THEN IsFirstSuccessOrLastResult(e)
    ELSE IF m = "ResultsUntilFirstSuccess" THEN IsResultUntilFirstSuccess(e)
    ELSE IF m = "SuccessOrErrorResults" THEN IsSuccessOrError(e)
    ELSE IsResult(e)

\* --------------------------------------------------------------- engine
\* A worker of the input is a record of its id, its instances and whether
\* Work is non-nil.  An error is the pair of its message and the WorkerID
\* it names; NoError is the nil error.
NoError == <<"ok", "">>

\* Mutant of checkWorkers: a worker with 0 instances is accepted.
RECURSIVE checkWorkers_ZeroAccepted(_, _, _)
checkWorkers_ZeroAccepted(ws, k, seen) ==
    IF k > Len(ws) THEN NoError
    ELSE LET w == ws[k]
         IN  IF w.wid \in seen THEN <<"duplicate worker", w.wid>>
             ELSE IF w.instances < 0 \/ w.instances > maxInstances
                  THEN <<"instances must be in 1..100 range", w.wid>>
             ELSE IF ~w.work THEN <<"work function cannot be nil", w.wid>>
             ELSE checkWorkers_ZeroAccepted(ws, k + 1, seen \cup {w.wid})

\* Mutant of checkWorkers: the instances are checked before the duplicate.
RECURSIVE checkWorkers_InstancesFirst(_, _, _)
checkWorkers_InstancesFirst(ws, k, seen) ==
    IF k > Len(ws) THEN NoError
    ELSE LET w == ws[k]
         IN  IF w.instances <= 0 \/ w.instances > maxInstances
                  THEN <<"instances must be in 1..100 range", w.wid>>
             ELSE IF w.wid \in seen THEN <<"duplicate worker", w.wid>>
             ELSE IF ~w.work THEN <<"work function cannot be nil", w.wid>>
             ELSE checkWorkers_InstancesFirst(ws, k + 1, seen \cup {w.wid})

\* The first loop of NewEngine from position k on; seen holds the ids of
\* the workers already accepted.  Yields the error, or NoError.
RECURSIVE checkWorkers(_, _, _)
checkWorkers(ws, k, seen) ==
    IF k > Len(ws) THEN NoError
    ELSE LET w == ws[k]
         IN  IF w.wid \in seen THEN <<"duplicate worker", w.wid>>
             ELSE IF w.instances <= 0 \/ w.instances > maxInstances
                  THEN <<"instances must be in 1..100 range", w.wid>>
             ELSE IF ~w.work THEN <<"work function cannot be nil", w.wid>>
             ELSE checkWorkers(ws, k + 1, seen \cup {w.wid})

\* The second loop of NewEngine: the mapping entries that are rejected.
undefinedWorkers(ws, wts) ==
    {wid \in DOMAIN wts :
        Len(wts[wid]) # 0 /\ wid \notin {ws[k].wid : k \in DOMAIN ws}}

\* NewEngine: the error (NoError when the engine is built) and the engine.
NewEngine(ws, wts) ==
    LET e1 == checkWorkers(ws, 1, {})
        kept == {wid \in DOMAIN wts : Len(wts[wid]) # 0}
    IN  [err |-> IF e1 # NoError THEN e1
                 ELSE IF undefinedWorkers(ws, wts) # {}
                      THEN <<"tasks for undefined worker",
                             CHOOSE wid \in undefinedWorkers(ws, wts) : TRUE>>
                 ELSE NoError,
         workers |-> {ws[k].wid : k \in DOMAIN ws},
         widtasks |-> [wid \in kept |-> wts[wid]],
         workersList |-> ws]

\* The outcomes of NewEngine: the range over the map wts meets its entries
\* in any order, so any of the rejected entries can be the one reported.
NewEngineOutcomes(ws, wts) ==
    IF checkWorkers(ws, 1, {}) # NoError \/ undefinedWorkers(ws, wts) = {}
    THEN {NewEngine(ws, wts)}
    ELSE {[NewEngine(ws, wts) EXCEPT !.err = <<"tasks for undefined worker", wid>>] :
             wid \in undefinedWorkers(ws, wts)}

\* ---------------------------------------------------------------- state
VARIABLES
    eng,          \* the Engine: workers, widtasks, workersList
    runs,         \* history: runs started on the engine (the state is that
                  \* of the latest one)
    call,         \* the function applied and its arguments, in the
                  \* specifications of single functions (<<>> in a run)
    ret,          \* its result: <<>> before it returns, <<r>> after
    closes,       \* history: the close(ch) calls on the input channel of
                  \* each worker
    mode,         \* "Events" (ExecuteEvents) or the Mode given to Execute
    parentDone,   \* the caller's context is cancelled
    taskcancel,   \* the TaskIDs whose cancel func has been called
    inputc,       \* the WorkerIDs whose input channel is in the map (open)
    outputClosed, \* close(outputc) has run
    eventClosed,  \* close(eventc) has run
    boot,         \* idle outputs the bootstrap goroutine has sent
    wk,           \* worker goroutines: <<wid, inst>> -> [pc, req, res]
    mpc,          \* main goroutine: "recv", "event", "send", "close_out",
                  \* "close_ev", "exit"
    mo,           \* main goroutine: the output o being handled
    mnext,        \* main goroutine: the jobInput being sent
    widtasks,     \* main goroutine: the clone of eng.widtasks
    statMap,      \* main goroutine: the task status map
    fpc,          \* Execute's goroutine: "recv", "send", "exit" ("none")
    fres,         \* Execute's goroutine: the event whose Result it is sending
    resultClosed, \* close(resultc) has run
    panicked,     \* a goroutine panicked: the process is gone
    events,       \* history: the events received from eventc, in order
    results,      \* history: the events whose Result was received from resultc
    natt,         \* history: jobs handed out so far (numbers the attempts)
    nilReturned,  \* history: some Work call returned a nil Result
    spurious      \* history: some Work call returned context.Canceled
                  \* although its context was not cancelled

vars == <<eng, runs, call, ret, closes, mode, parentDone, taskcancel, inputc, outputClosed, eventClosed,
          boot, wk, mpc, mo, mnext, widtasks, statMap, fpc, fres, resultClosed,
          panicked, events, results, natt, nilReturned, spurious>>

NoTask == [tid |-> 0, own |-> "", pos |-> 0]
NoInput == [task |-> NoTask, stat |-> ZeroStat, att |-> 0, ctx |-> 0]
NoOutput == [res |-> NilResult, wid |-> "", inst |-> 0, task |-> NoTask, att |-> 0]
NoEvent == [res |-> NilResult, wid |-> "", inst |-> 0, task |-> NoTask,
            stat |-> ZeroStat, att |-> 0]

\* The goroutines started by the loops over eng.workersList: <<wid, inst>>.
InstancesOf(e) ==
    UNION {{<<e.workersList[k].wid, i>> : i \in 0 .. (e.workersList[k].instances - 1)} :
        k \in DOMAIN e.workersList}

\* The idle outputs of the bootstrap goroutine, in the order it sends them.
RECURSIVE bootSeq(_, _)
bootSeq(ws, k) ==
    IF k > Len(ws) THEN <<>>
    ELSE [i \in 1 .. ws[k].instances |-> <<ws[k].wid, i - 1>>] \o bootSeq(ws, k + 1)

\* Mutant of taskctx: one context is made for all the tasks.
taskctx_OneForAll(tid) == 0

\* taskctx[tid]: the context made for a TaskID, one for each distinct
\* TaskID, named here by the TaskID.
taskctx(tid) == tid

\* c.Done() of a task context c: it is a child of the caller's context,
\* and taskcancel holds the TaskIDs whose cancel function was called.
ctxDone(c) == parentDone \/ \E tid \in taskcancel : taskctx(tid) = c

\* for !statMap.completed(): where the main goroutine goes at the loop head.
loopHead(statmap) == IF completed(statmap) THEN "close_out" ELSE "recv"

\* ----------------------------------------------------------------- inputs
\* Sequences over S of length at most n.
BSeq(S, n) == UNION {[1 .. k -> S] : k \in 0 .. n}

\* The Task values of a worker's list: the TaskID and the payload that
\* tells the listing (worker, position) apart.
MkTasks(wid, tids) ==
    [k \in 1 .. Len(tids) |-> [tid |-> tids[k], own |-> wid, pos |-> k]]

RECURSIVE SumLen(_, _)
SumLen(f, S) ==
    IF S = {} THEN 0
    ELSE LET x == CHOOSE y \in S : TRUE IN Len(f[x]) + SumLen(f, S \ {x})

RECURSIVE SumInst(_, _)
SumInst(ws, k) == IF k > Len(ws) THEN 0 ELSE ws[k].instances + SumInst(ws, k + 1)

\* The worker lists explored: the first n workers of WorkerIDs, each with
\* at least one instance.
WorkerLists ==
    UNION {{[k \in 1 .. n |-> [wid |-> WorkerIDs[k], instances |-> ins[k],
                               work |-> TRUE]] :
               ins \in [1 .. n -> 1 .. MaxLoad]} :
           n \in 1 .. Len(WorkerIDs)}

\* The task mappings explored (as TaskID lists) for a worker list.
TaskLists(ws) ==
    {t \in [{ws[k].wid : k \in DOMAIN ws} -> BSeq(TaskIDs, MaxLoad - SumInst(ws, 1))] :
        SumLen(t, DOMAIN t) + SumInst(ws, 1) <= MaxLoad}

\* The inputs of NewEngine explored, each with the outcome of NewEngine.
EngineInputs ==
    UNION {{NewEngine(ws, [w \in DOMAIN tids |-> MkTasks(w, tids[w])]) :
               tids \in TaskLists(ws)} :
           ws \in {v \in WorkerLists : SumInst(v, 1) <= MaxLoad}}

\* The engines NewEngine accepts.
Engines == {e \in EngineInputs : e.err = NoError}

\* ------------------------------------------------------------------- Init
\* The state when ExecuteEvents has started its goroutines: the main
\* goroutine has cloned the task lists, built the status map and stands at
\* the head of its loop.
InitRunOn(E, m) ==
    /\ eng \in E
    /\ runs = 1
    /\ call = <<>>
    /\ ret = <<>>
    /\ mode = m
    /\ parentDone = FALSE
    /\ taskcancel = {}
    /\ inputc = eng.workers
    /\ closes = [wid \in eng.workers |-> 0]
    /\ outputClosed = FALSE
    /\ eventClosed = FALSE
    /\ boot = 0
    /\ wk = [x \in InstancesOf(eng) |-> [pc |-> "recv", req |-> NoInput, res |-> NilResult]]
    /\ widtasks = Clone(eng.widtasks)
    /\ statMap = newTaskStatusMap(eng.widtasks)
    /\ mpc = loopHead(statMap)
    /\ mo = NoOutput
    /\ mnext = NoInput
    /\ fpc = IF m = "Events" THEN "none" ELSE "recv"
    /\ fres = NoEvent
    /\ resultClosed = FALSE
    /\ panicked = FALSE
    /\ events = <<>>
    /\ results = <<>>
    /\ natt = 0
    /\ nilReturned = FALSE
    /\ spurious = FALSE

InitRun(m) == InitRunOn(Engines, m)

\* A run of ExecuteEvents.
Init == InitRun("Events")

\* A run of Execute in one of the four modes.
InitExecute == \E m \in Modes : InitRun(m)

\* The state of the run variables when no run has been started.
NoRun ==
    /\ eng = [err |-> NoError, workers |-> {}, widtasks |-> <<>>, workersList |-> <<>>]
    /\ runs = 0
    /\ mode = "Events"
    /\ parentDone = FALSE
    /\ taskcancel = {}
    /\ inputc = {}
    /\ closes = <<>>
    /\ outputClosed = FALSE
    /\ eventClosed = FALSE
    /\ boot = 0
    /\ wk = <<>>
    /\ widtasks = <<>>
    /\ statMap = <<>>
    /\ mpc = "none"
    /\ mo = NoOutput
    /\ mnext = NoInput
    /\ fpc = "none"
    /\ fres = NoEvent
    /\ resultClosed = FALSE
    /\ panicked = FALSE
    /\ events = <<>>
    /\ results = <<>>
    /\ natt = 0
    /\ nilReturned = FALSE
    /\ spurious = FALSE

runVars == <<eng, runs, closes, mode, parentDone, taskcancel, inputc, outputClosed,
             eventClosed, boot, wk, mpc, mo, mnext, widtasks, statMap, fpc, fres,
             resultClosed, panicked, events, results, natt, nilReturned, spurious>>

\* ExecuteEvents (and Execute, for a mode m other than "Events") past its
\* checks, on the engine e: the channels are made and the goroutines
\* started; the main goroutine has cloned the task lists, built the status
\* map and stands at the head of its loop.
StartRun(e, m) ==
    /\ eng' = e
    /\ mode' = m
    /\ parentDone' = FALSE
    /\ taskcancel' = {}
    /\ inputc' = e.workers
    /\ closes' = [wid \in e.workers |-> 0]
    /\ outputClosed' = FALSE
    /\ eventClosed' = FALSE
    /\ boot' = 0
    /\ wk' = [x \in InstancesOf(e) |-> [pc |-> "recv", req |-> NoInput, res |-> NilResult]]
    /\ widtasks' = Clone(e.widtasks)
    /\ statMap' = newTaskStatusMap(e.widtasks)
    /\ mpc' = loopHead(statMap')
    /\ mo' = NoOutput
    /\ mnext' = NoInput
    /\ fpc' = IF m = "Events" THEN "none" ELSE "recv"
    /\ fres' = NoEvent
    /\ resultClosed' = FALSE
    /\ events' = <<>>
    /\ results' = <<>>
    /\ natt' = 0
    /\ nilReturned' = FALSE
    /\ spurious' = FALSE

\* ------------------------------------------------- calls of Execute(Events)
\* A pointer argument is <<>> (nil) or <<v>>.
NilPtr == <<>>

\* Mutant of checkArgs: the context is checked before the engine.
checkArgs_ContextFirst(e, ctx) ==
    IF ctx = NilPtr THEN "nil context"
    ELSE IF e = NilPtr THEN "nil engine"
    ELSE "nil"

\* The checks at the head of ExecuteEvents: the error message, "nil" for
\* no error.
checkArgs(e, ctx) ==
    IF e = NilPtr THEN "nil engine"
    ELSE IF ctx = NilPtr THEN "nil context"
    ELSE "nil"

\* The calls explored: of ExecuteEvents and of Execute in each mode, on nil
\* or an engine, with nil or a context.
CallInputs ==
    [fn : {"ExecuteEvents"}, eng : {NilPtr} \cup {<<e>> : e \in Engines},
     ctx : {NilPtr, <<"ctx">>}, mode : {"Events"}]
    \cup
    [fn : {"Execute"}, eng : {NilPtr} \cup {<<e>> : e \in Engines},
     ctx : {NilPtr, <<"ctx">>}, mode : Modes]

InitCall == NoRun /\ call \in CallInputs /\ ret = <<>>

\* eng.ExecuteEvents(ctx) up to its return: the error, or the run started.
ExecuteEventsCall ==
    /\ call.fn = "ExecuteEvents" /\ ret = <<>>
    /\ ret' = <<checkArgs(call.eng, call.ctx)>>
    /\ IF checkArgs(call.eng, call.ctx) # "nil"
       THEN UNCHANGED runVars
       ELSE /\ StartRun(call.eng[1], "Events")
            /\ runs' = 1
            /\ UNCHANGED panicked
    /\ UNCHANGED call

\* eng.Execute(ctx, mode) up to its return: the error of ExecuteEvents, or
\* the run started together with the goroutine that filters its events.
ExecuteCall ==
    /\ call.fn = "Execute" /\ ret = <<>>
    /\ ret' = <<checkArgs(call.eng, call.ctx)>>
    /\ IF checkArgs(call.eng, call.ctx) # "nil"
       THEN UNCHANGED runVars
       ELSE /\ StartRun(call.eng[1], call.mode)
            /\ runs' = 1
            /\ UNCHANGED panicked
    /\ UNCHANGED call

NextCall == ExecuteEventsCall \/ ExecuteCall

SpecCall == InitCall /\ [][NextCall]_vars

\* ------------------------------------------------------ functions on events
\* The events explored: any result or none, with a snapshot whose todo and
\* doing are at most MaxCount and whose success is at most MaxCount + 1.
EventValues ==
    {[NoEvent EXCEPT !.res = r, !.stat = st] :
        r \in AnyResults \cup {NilResult},
        st \in [todo : 0 .. MaxCount, doing : 0 .. MaxCount, done : {0},
                 success : 0 .. (MaxCount + 1)]}

EventFns == {"Type", "IsResult", "IsFirstSuccessOrLastResult",
             "IsResultUntilFirstSuccess", "IsSuccessOrError"}

EventInputs == [fn : EventFns, e : {NilPtr} \cup {<<e>> : e \in EventValues}]

InitEvent == NoRun /\ call \in EventInputs /\ ret = <<>>

\* e.Type()
TypeCall ==
    /\ call.fn = "Type" /\ ret = <<>>
    /\ ret' = <<TypeOf(call.e)>>
    /\ UNCHANGED <<call, runVars>>

\* IsResult(e)
IsResultCall ==
    /\ call.fn = "IsResult" /\ ret = <<>>
    /\ ret' = <<IsResultOf(call.e)>>
    /\ UNCHANGED <<call, runVars>>

\* IsFirstSuccessOrLastResult(e)
IsFirstSuccessOrLastResultCall ==
    /\ call.fn = "IsFirstSuccessOrLastResult" /\ ret = <<>>
    /\ ret' = <<IsFirstSuccessOrLastResultOf(call.e)>>
    /\ UNCHANGED <<call, runVars>>

\* IsResultUntilFirstSuccess(e)
IsResultUntilFirstSuccessCall ==
    /\ call.fn = "IsResultUntilFirstSuccess" /\ ret = <<>>
    /\ ret' = <<IsResultUntilFirstSuccessOf(call.e)>>
    /\ UNCHANGED <<call, runVars>>

\* IsSuccessOrError(e)
IsSuccessOrErrorCall ==
    /\ call.fn = "IsSuccessOrError" /\ ret = <<>>
    /\ ret' = <<IsSuccessOrErrorOf(call.e)>>
    /\ UNCHANGED <<call, runVars>>

NextEvent ==
    \/ TypeCall
    \/ IsResultCall
    \/ IsFirstSuccessOrLastResultCall
    \/ IsResultUntilFirstSuccessCall
    \/ IsSuccessOrErrorCall

SpecEvent == InitEvent /\ [][NextEvent]_vars

\* -------------------------------------------------------------- NewEngine
\* The arguments of NewEngine explored: up to two workers with ids among
\* the first two WorkerIDs (so twice the same too), instances around the
\* limits and Work nil or not; a mapping for some of "w1", "w2" and the
\* id "w3" of no worker, with empty and non-empty lists.
NewWorkers ==
    [wid : {WorkerIDs[1], WorkerIDs[2]},
     instances : {-1, 0, 1, maxInstances, maxInstances + 1},
     work : BOOLEAN]

NewInputs ==
    UNION {[fn : {"NewEngine"},
            ws : BSeq(NewWorkers, Len(WorkerIDs)),
            wts : {[wid \in D |-> MkTasks(wid, tids[wid])] :
                      tids \in [D -> {<<>>, <<1>>, <<2, 1>>}]}] :
           D \in SUBSET {"w1", "w2", "w3"}}

InitNew == NoRun /\ call \in NewInputs /\ ret = <<>>

\* eng, err := NewEngine(ws, wts)
NewEngineCall ==
    /\ ret = <<>>
    /\ \E r \in NewEngineOutcomes(call.ws, call.wts) : ret' = <<r>>
    /\ UNCHANGED <<call, runVars>>

NextNew == NewEngineCall

SpecNew == InitNew /\ [][NextNew]_vars

\* ------------------------------------------------------------------- pick
\* The inputs of pick explored: a status map of TaskIDs with counts up to
\* MaxCount, and a task list of at most MaxLoad - 1 tasks.
PickInputs ==
    [statmap : [TaskIDs -> [todo : 0 .. MaxCount, doing : 0 .. MaxCount,
                            done : {0}, success : 0 .. MaxCount]],
     ts : {MkTasks("w1", tids) : tids \in BSeq(TaskIDs, MaxLoad - 1)}]

InitPick == NoRun /\ call \in PickInputs /\ ret = <<>>

\* n := statMap.pick(ts)
PickCall ==
    /\ ret = <<>>
    /\ ret' = <<pick(call.statmap, call.ts)>>
    /\ UNCHANGED <<call, runVars>>

NextPick == PickCall

SpecPick == InitPick /\ [][NextPick]_vars

\* pick and Tasks.remove on two lists that hold the same distinct TaskIDs
\* in two orders, with one status map: call.ts and call.ts2.
Distinct(tids) == \A i, j \in DOMAIN tids : tids[i] = tids[j] => i = j
DistinctLists == {tids \in BSeq(TaskIDs, MaxLoad - 1) : Distinct(tids)}
PermInputs ==
    {c \in [statmap : [TaskIDs -> [todo : 0 .. MaxCount, doing : 0 .. MaxCount,
                                   done : {0}, success : 0 .. MaxCount]],
            ts : {MkTasks("w1", tids) : tids \in DistinctLists},
            ts2 : {MkTasks("w1", tids) : tids \in DistinctLists}] :
        /\ Len(c.ts) = Len(c.ts2)
        /\ {c.ts[k].tid : k \in DOMAIN c.ts} = {c.ts2[k].tid : k \in DOMAIN c.ts2}}

InitPerm == NoRun /\ call \in PermInputs /\ ret = <<>>

\* n := statMap.pick(ts) on each of the two lists
PickBothCall ==
    /\ ret = <<>>
    /\ ret' = <<[n |-> pick(call.statmap, call.ts),
                 n2 |-> pick(call.statmap, call.ts2)]>>
    /\ UNCHANGED <<call, runVars>>

\* if n >= 0 { nexttask = ts.remove(n) } on each of the two lists
RemoveBothCall ==
    /\ ret # <<>> /\ ret[1].n >= 0 /\ ret[1].n2 >= 0
    /\ call' = [call EXCEPT !.ts = remove(call.ts, ret[1].n),
                            !.ts2 = remove(call.ts2, ret[1].n2)]
    /\ ret' = <<>>
    /\ UNCHANGED runVars

NextPerm == PickBothCall \/ RemoveBothCall

SpecPerm == InitPerm /\ [][NextPerm]_vars

\* ---------------------------------------------------------------- actions
\* eventc <- e, received by the caller (ExecuteEvents) or by the goroutine
\* of Execute, which then holds the Result of an exported event.
Deliver(e) ==
    /\ ~eventClosed
    /\ mode = "Events" \/ fpc = "recv"
    /\ events' = Append(events, e)
    /\ IF mode # "Events" /\ exportResult(mode, e)
       THEN fpc' = "send" /\ fres' = e
       ELSE UNCHANGED <<fpc, fres>>

\* close(ch) of a worker's input channel seen from its goroutines: those
\* blocked in "for req := range inputc" leave the loop and end.
closeInput(w, wid) ==
    [x \in DOMAIN w |->
        IF x[1] = wid /\ w[x].pc = "recv" THEN [w[x] EXCEPT !.pc = "exit"] ELSE w[x]]

\* Mutant of backToRange: the goroutine ends after its first job.
backToRange_NoLoop(x) ==
    [pc |-> "exit", req |-> NoInput, res |-> NilResult]

\* A worker goroutine after req.outc <- &jout: back at the range over its
\* input channel, which ends at once if the channel is closed.
backToRange(x) ==
    [pc |-> IF x[1] \in inputc THEN "recv" ELSE "exit", req |-> NoInput,
     res |-> NilResult]

\* Mutant of selectNext: a task that has a success already is not handed
\* out; the worker is treated as if it had no task left.
selectNext_SkipSucceeded(o, sm, w) ==
    LET ts == TasksOf(widtasks, o.wid)
        n  == pick(sm, ts)
    IN  IF n >= 0 /\ sm[ts[n + 1].tid].success = 0
        THEN LET nexttask == ts[n + 1]
                 tid == nexttask.tid
                 sm2 == doing(sm, tid)
             IN  /\ widtasks' = [widtasks EXCEPT ![o.wid] = remove(ts, n)]
                 /\ statMap' = sm2
                 /\ natt' = natt + 1
                 /\ mnext' = [task |-> nexttask, stat |-> sm2[tid], att |-> natt + 1,
                               ctx |-> taskctx(tid)]
                 /\ mo' = o
                 /\ mpc' = "send"
                 /\ wk' = w
                 /\ UNCHANGED <<eng, inputc, closes>>
        ELSE /\ inputc' = inputc \ {o.wid}
             /\ closes' = IF o.wid \in inputc
                           THEN [closes EXCEPT ![o.wid] = @ + 1] ELSE closes
             /\ wk' = closeInput(w, o.wid)
             /\ statMap' = sm
             /\ mo' = NoOutput
             /\ mpc' = loopHead(sm)
             /\ UNCHANGED <<eng, widtasks, natt, mnext>>

\* Mutant of selectNext: close(ch) is called without looking the channel
\* up in the map of the open channels.
selectNext_CloseUnguarded(o, sm, w) ==
    LET ts == TasksOf(widtasks, o.wid)
        n  == pick(sm, ts)
    IN  IF n >= 0
        THEN LET nexttask == ts[n + 1]
                 tid == nexttask.tid
                 sm2 == doing(sm, tid)
             IN  /\ widtasks' = [widtasks EXCEPT ![o.wid] = remove(ts, n)]
                 /\ statMap' = sm2
                 /\ natt' = natt + 1
                 /\ mnext' = [task |-> nexttask, stat |-> sm2[tid], att |-> natt + 1,
                               ctx |-> taskctx(tid)]
                 /\ mo' = o
                 /\ mpc' = "send"
                 /\ wk' = w
                 /\ UNCHANGED <<eng, inputc, closes>>
        ELSE /\ inputc' = inputc \ {o.wid}
             /\ closes' = [closes EXCEPT ![o.wid] = @ + 1]
             /\ wk' = closeInput(w, o.wid)
             /\ statMap' = sm
             /\ mo' = NoOutput
             /\ mpc' = loopHead(sm)
             /\ UNCHANGED <<eng, widtasks, natt, mnext>>

\* Mutant of selectNext: the task lists of the run share their arrays with
\* the lists of the engine (no copy is made), so remove writes into the
\* engine's list.
selectNext_SharedLists(o, sm, w) ==
    LET ts == TasksOf(widtasks, o.wid)
        n  == pick(sm, ts)
    IN  IF n >= 0
        THEN LET nexttask == ts[n + 1]
                 tid == nexttask.tid
                 sm2 == doing(sm, tid)
             IN  /\ widtasks' = [widtasks EXCEPT ![o.wid] = remove(ts, n)]
                 /\ eng' = [eng EXCEPT !.widtasks[o.wid][n + 1] = ts[Len(ts)]]
                 /\ statMap' = sm2
                 /\ natt' = natt + 1
                 /\ mnext' = [task |-> nexttask, stat |-> sm2[tid], att |-> natt + 1,
                               ctx |-> taskctx(tid)]
                 /\ mo' = o
                 /\ mpc' = "send"
                 /\ wk' = w
                 /\ UNCHANGED <<inputc, closes>>
        ELSE /\ inputc' = inputc \ {o.wid}
             /\ closes' = IF o.wid \in inputc
                           THEN [closes EXCEPT ![o.wid] = @ + 1] ELSE closes
             /\ wk' = closeInput(w, o.wid)
             /\ statMap' = sm
             /\ mo' = NoOutput
             /\ mpc' = loopHead(sm)
             /\ UNCHANGED <<eng, widtasks, natt, mnext>>

\* "select the next task of the worker" and what follows it up to the next
\* channel operation of the main goroutine, for the output o, the status
\* map sm and the worker goroutines w.
selectNext(o, sm, w) ==
    LET ts == TasksOf(widtasks, o.wid)
        n  == pick(sm, ts)
    IN  IF n >= 0
        THEN LET nexttask == ts[n + 1]
                 tid == nexttask.tid
                 sm2 == doing(sm, tid)
             IN  /\ widtasks' = [widtasks EXCEPT ![o.wid] = remove(ts, n)]
                 /\ statMap' = sm2
                 /\ natt' = natt + 1
                 /\ mnext' = [task |-> nexttask, stat |-> sm2[tid], att |-> natt + 1,
                               ctx |-> taskctx(tid)]
                 /\ mo' = o
                 /\ mpc' = "send"
                 /\ wk' = w
                 /\ UNCHANGED <<eng, inputc, closes>>
        ELSE /\ inputc' = inputc \ {o.wid}
             /\ closes' = IF o.wid \in inputc
                           THEN [closes EXCEPT ![o.wid] = @ + 1] ELSE closes
             /\ wk' = closeInput(w, o.wid)
             /\ statMap' = sm
             /\ mo' = NoOutput
             /\ mpc' = loopHead(sm)
             /\ UNCHANGED <<eng, widtasks, natt, mnext>>

\* Mutant of handleOutput: the task context is never cancelled.
handleOutput_NoCancel(o, w) ==
    IF o.res # NilResult
    THEN LET success == (Error(o.res) = "nil")
             tid == o.task.tid
         IN  /\ statMap' = done(statMap, tid, success)
             /\ taskcancel' = taskcancel
             /\ mo' = o
             /\ mpc' = "event"
             /\ wk' = w
             /\ UNCHANGED <<eng, widtasks, natt, mnext, inputc, closes>>
    ELSE /\ selectNext(o, statMap, w)
         /\ UNCHANGED taskcancel

\* Mutant of handleOutput: the output of an attempt with a nil Result is
\* counted as a failed attempt.
handleOutput_NilIsFailure(o, w) ==
    IF o.res # NilResult \/ o.task # NoTask
    THEN LET success == (o.res # NilResult /\ Error(o.res) = "nil")
             tid == o.task.tid
         IN  /\ statMap' = done(statMap, tid, success)
             /\ taskcancel' = IF success THEN taskcancel \cup {tid} ELSE taskcancel
             /\ mo' = o
             /\ mpc' = "event"
             /\ wk' = w
             /\ UNCHANGED <<eng, widtasks, natt, mnext, inputc, closes>>
    ELSE /\ selectNext(o, statMap, w)
         /\ UNCHANGED taskcancel

\* Mutant of handleOutput: the task context is cancelled when the attempt
\* failed instead of when it succeeded.
handleOutput_CancelOnFailure(o, w) ==
    IF o.res # NilResult
    THEN LET success == (Error(o.res) = "nil")
             tid == o.task.tid
         IN  /\ statMap' = done(statMap, tid, success)
             /\ taskcancel' = IF success THEN taskcancel ELSE taskcancel \cup {tid}
             /\ mo' = o
             /\ mpc' = "event"
             /\ wk' = w
             /\ UNCHANGED <<eng, widtasks, natt, mnext, inputc, closes>>
    ELSE /\ selectNext(o, statMap, w)
         /\ UNCHANGED taskcancel

\* Mutant of handleOutput: the task context is cancelled on every result,
\* not only on a success.
handleOutput_CancelAlways(o, w) ==
    IF o.res # NilResult
    THEN LET success == (Error(o.res) = "nil")
             tid == o.task.tid
         IN  /\ statMap' = done(statMap, tid, success)
             /\ taskcancel' = taskcancel \cup {tid}
             /\ mo' = o
             /\ mpc' = "event"
             /\ wk' = w
             /\ UNCHANGED <<eng, widtasks, natt, mnext, inputc, closes>>
    ELSE /\ selectNext(o, statMap, w)
         /\ UNCHANGED taskcancel

\* Mutant of handleOutput: no end event is sent for a result.
handleOutput_NoEndEvent(o, w) ==
    IF o.res # NilResult
    THEN LET success == (Error(o.res) = "nil")
             tid == o.task.tid
         IN  /\ selectNext(o, done(statMap, tid, success), w)
             /\ taskcancel' = IF success THEN taskcancel \cup {tid} ELSE taskcancel
    ELSE /\ selectNext(o, statMap, w)
         /\ UNCHANGED taskcancel

\* o := <-outputc and the handling of o up to the next channel operation.
handleOutput(o, w) ==
    IF o.res # NilResult
    THEN LET success == (Error(o.res) = "nil")
             tid == o.task.tid
         IN  /\ statMap' = done(statMap, tid, success)
             /\ taskcancel' = IF success THEN taskcancel \cup {tid} ELSE taskcancel
             /\ mo' = o
             /\ mpc' = "event"
             /\ wk' = w
             /\ UNCHANGED <<eng, widtasks, natt, mnext, inputc, closes>>
    ELSE /\ selectNext(o, statMap, w)
         /\ UNCHANGED taskcancel

\* The main goroutine receives an idle output of the bootstrap goroutine.
MainRecvIdle ==
    /\ ~panicked /\ mpc = "recv"
    /\ boot < Len(bootSeq(eng.workersList, 1))
    /\ LET b == bootSeq(eng.workersList, 1)[boot + 1]
       IN  handleOutput([NoOutput EXCEPT !.wid = b[1], !.inst = b[2]], wk)
    /\ boot' = boot + 1
    /\ UNCHANGED <<runs, call, ret, mode, parentDone, outputClosed, eventClosed, fpc, fres,
                   resultClosed, panicked, events, results, nilReturned, spurious>>

\* The main goroutine receives the output of a worker goroutine, which
\* goes back to reading its input channel.
MainRecvOutput(x) ==
    /\ ~panicked /\ mpc = "recv"
    /\ wk[x].pc = "out"
    /\ handleOutput([res |-> wk[x].res, wid |-> x[1], inst |-> x[2],
                     task |-> wk[x].req.task, att |-> wk[x].req.att],
                    [wk EXCEPT ![x] = backToRange(x)])
    /\ UNCHANGED <<runs, call, ret, mode, parentDone, outputClosed, eventClosed, boot, fpc, fres,
                   resultClosed, panicked, events, results, nilReturned, spurious>>

\* Mutant of endEvent: the snapshot is the one before statMap.done.
endEvent_SnapshotBefore ==
    [res |-> mo.res, wid |-> mo.wid, inst |-> mo.inst, task |-> mo.task,
     stat |-> [statMap[mo.task.tid] EXCEPT !.doing = @ + 1, !.done = @ - 1],
     att |-> mo.att]

\* The end event built by the main goroutine for the output mo.
endEvent ==
    [res |-> mo.res, wid |-> mo.wid, inst |-> mo.inst, task |-> mo.task,
     stat |-> statMap[mo.task.tid], att |-> mo.att]

\* The main goroutine sends the end event, then selects the next task.
MainSendEvent ==
    /\ ~panicked /\ mpc = "event"
    /\ Deliver(endEvent)
    /\ selectNext(mo, statMap, wk)
    /\ UNCHANGED <<runs, call, ret, mode, parentDone, taskcancel, outputClosed, eventClosed, boot,
                   resultClosed, panicked, results, nilReturned, spurious>>

\* inputc[o.wid] <- i, received by an instance of the worker that is
\* reading the channel.
MainSendInput(x) ==
    /\ ~panicked /\ mpc = "send"
    /\ x[1] = mo.wid /\ mo.wid \in inputc
    /\ wk[x].pc = "recv"
    /\ wk' = [wk EXCEPT ![x] = [pc |-> "start", req |-> mnext, res |-> NilResult]]
    /\ mpc' = loopHead(statMap)
    /\ mo' = NoOutput
    /\ mnext' = NoInput
    /\ UNCHANGED <<eng, runs, call, ret, closes, mode, parentDone, taskcancel, inputc, outputClosed, eventClosed,
                   boot, widtasks, statMap, fpc, fres, resultClosed, panicked,
                   events, results, natt, nilReturned, spurious>>

\* close(outputc)
MainCloseOutput ==
    /\ ~panicked /\ mpc = "close_out"
    /\ outputClosed' = TRUE
    /\ mpc' = "close_ev"
    /\ UNCHANGED <<eng, runs, call, ret, closes, mode, parentDone, taskcancel, inputc, eventClosed, boot, wk,
                   mo, mnext, widtasks, statMap, fpc, fres, resultClosed, panicked,
                   events, results, natt, nilReturned, spurious>>

\* close(eventc)
MainCloseEvent ==
    /\ ~panicked /\ mpc = "close_ev"
    /\ eventClosed' = TRUE
    /\ mpc' = "exit"
    /\ UNCHANGED <<eng, runs, call, ret, closes, mode, parentDone, taskcancel, inputc, outputClosed, boot, wk,
                   mo, mnext, widtasks, statMap, fpc, fres, resultClosed, panicked,
                   events, results, natt, nilReturned, spurious>>

\* The bootstrap goroutine sends (or is blocked sending) on outputc after
\* close(outputc): send on closed channel, the process panics.
BootPanic ==
    /\ ~panicked /\ outputClosed
    /\ boot < Len(bootSeq(eng.workersList, 1))
    /\ panicked' = TRUE
    /\ UNCHANGED <<eng, runs, call, ret, closes, mode, parentDone, taskcancel, inputc, outputClosed, eventClosed,
                   boot, wk, mpc, mo, mnext, widtasks, statMap, fpc, fres,
                   resultClosed, events, results, natt, nilReturned, spurious>>

\* Mutant of WorkerStart: the goroutine calls Work without sending the
\* Start event.
WorkerStart_NoEvent(x) ==
    /\ ~panicked /\ wk[x].pc = "start"
    /\ wk' = [wk EXCEPT ![x].pc = "work"]
    /\ UNCHANGED <<eng, runs, call, ret, closes, mode, parentDone, taskcancel, inputc, outputClosed, eventClosed,
                   boot, mpc, mo, mnext, widtasks, statMap, fpc, fres, resultClosed,
                   panicked, events, results, natt, nilReturned, spurious>>

\* A worker goroutine sends the Start event of the job it received.
WorkerStart(x) ==
    /\ ~panicked /\ wk[x].pc = "start"
    /\ Deliver([res |-> NilResult, wid |-> x[1], inst |-> x[2],
                task |-> wk[x].req.task, stat |-> wk[x].req.stat,
                att |-> wk[x].req.att])
    /\ wk' = [wk EXCEPT ![x].pc = "work"]
    /\ UNCHANGED <<eng, runs, call, ret, closes, mode, parentDone, taskcancel, inputc, outputClosed, eventClosed,
                   boot, mpc, mo, mnext, widtasks, statMap, resultClosed, panicked,
                   results, natt, nilReturned, spurious>>

\* w.Work returns: any Result, or nil, whatever the state of its context
\* (cancellation is cooperative).
WorkReturn(x, r) ==
    /\ ~panicked /\ wk[x].pc = "work"
    /\ wk' = [wk EXCEPT ![x].pc = "out", ![x].res = r]
    /\ nilReturned' = (nilReturned \/ r = NilResult)
    /\ spurious' = (spurious \/ (r = "canceled" /\ ~ctxDone(wk[x].req.ctx)))
    /\ UNCHANGED <<eng, runs, call, ret, closes, mode, parentDone, taskcancel, inputc, outputClosed, eventClosed,
                   boot, mpc, mo, mnext, widtasks, statMap, fpc, fres, resultClosed,
                   panicked, events, results, natt>>

\* The caller cancels the context it gave to the run.
CancelParent ==
    /\ ~panicked /\ ~parentDone /\ ~eventClosed
    /\ parentDone' = TRUE
    /\ UNCHANGED <<eng, runs, call, ret, closes, mode, taskcancel, inputc, outputClosed, eventClosed, boot, wk,
                   mpc, mo, mnext, widtasks, statMap, fpc, fres, resultClosed,
                   panicked, events, results, natt, nilReturned, spurious>>

\* resultc <- e.Result, received by the caller of Execute.
FilterSend ==
    /\ ~panicked /\ fpc = "send"
    /\ results' = Append(results, fres)
    /\ fpc' = "recv"
    /\ fres' = NoEvent
    /\ UNCHANGED <<eng, runs, call, ret, closes, mode, parentDone, taskcancel, inputc, outputClosed, eventClosed,
                   boot, wk, mpc, mo, mnext, widtasks, statMap, resultClosed,
                   panicked, events, natt, nilReturned, spurious>>

\* for e := range eventc ends: close(resultc).
FilterClose ==
    /\ ~panicked /\ fpc = "recv" /\ eventClosed
    /\ resultClosed' = TRUE
    /\ fpc' = "exit"
    /\ UNCHANGED <<eng, runs, call, ret, closes, mode, parentDone, taskcancel, inputc, outputClosed, eventClosed,
                   boot, wk, mpc, mo, mnext, widtasks, statMap, fres, panicked,
                   events, results, natt, nilReturned, spurious>>

\* The caller starts another run of ExecuteEvents on the same engine, while
\* the latest run is in progress or after it; the state becomes that of the
\* new run, whose goroutines and channels are its own.
Rerun ==
    /\ ~panicked /\ runs < MaxRuns
    /\ runs' = runs + 1
    /\ StartRun(eng, mode)
    /\ UNCHANGED <<call, ret, panicked>>

\* The steps of the goroutines of ExecuteEvents.
Run ==
    \/ MainRecvIdle
    \/ \E x \in InstancesOf(eng) : MainRecvOutput(x)
    \/ MainSendEvent
    \/ \E x \in InstancesOf(eng) : MainSendInput(x)
    \/ MainCloseOutput
    \/ MainCloseEvent
    \/ BootPanic
    \/ \E x \in InstancesOf(eng) : WorkerStart(x)
    \/ \E x \in InstancesOf(eng) : \E r \in Results \cup {NilResult} : WorkReturn(x, r)

Next == Run \/ CancelParent

NextExecute == Run \/ CancelParent \/ FilterSend \/ FilterClose

\* A run of ExecuteEvents whose events the caller keeps receiving.
Spec == Init /\ [][Next]_vars

\* A run of Execute whose results the caller keeps receiving.
SpecExecute == InitExecute /\ [][NextExecute]_vars

\* Runs of ExecuteEvents on one engine, one started after another.
NextReuse == Next \/ Rerun

SpecReuse == Init /\ [][NextReuse]_vars

\* The engine of the scenario "mode differentiator": one task listed by
\* four workers of one instance each.
FourWorkers ==
    [k \in 1 .. 4 |-> [wid |-> <<"w1", "w2", "w3", "w4">>[k], instances |-> 1,
                        work |-> TRUE]]
FourWorkersEngine ==
    NewEngine(FourWorkers, [wid \in {"w1", "w2", "w3", "w4"} |-> MkTasks(wid, <<1>>)])

\* What the Work function of each worker returns in the scenario.
FourResults == [w1 |-> "error", w2 |-> "success", w3 |-> "canceled", w4 |-> "canceled"]

\* A run of Execute on that engine, in any mode, with these results and a
\* caller that does not cancel.  (Every worker has a task, so the
\* bootstrap goroutine has sent its four idle outputs before the first
\* job starts: it cannot be caught by close(outputc).)
InitFour == \E m \in Modes : InitRunOn({FourWorkersEngine}, m)

NextFour ==
    \/ MainRecvIdle
    \/ \E x \in InstancesOf(eng) : MainRecvOutput(x)
    \/ MainSendEvent
    \/ \E x \in InstancesOf(eng) : MainSendInput(x)
    \/ MainCloseOutput
    \/ MainCloseEvent
    \/ \E x \in InstancesOf(eng) : WorkerStart(x)
    \/ \E x \in InstancesOf(eng) : WorkReturn(x, FourResults[x[1]])
    \/ FilterSend
    \/ FilterClose

SpecFour == InitFour /\ [][NextFour]_vars

\* Every goroutine that can take a step eventually takes one.
LiveSpec == Spec /\ WF_vars(Run)

\* ------------------------------------------------------ notions of claims
\* The TaskIDs of the engine's mapping.
ListedTasks ==
    UNION {{eng.widtasks[w][k].tid : k \in DOMAIN eng.widtasks[w]} :
              w \in DOMAIN eng.widtasks}

\* The listings of a task: the (worker, position) pairs that hold it.
Listings(tid) ==
    UNION {{<<w, k>> : k \in {i \in DOMAIN eng.widtasks[w] : eng.widtasks[w][i].tid = tid}} :
              w \in DOMAIN eng.widtasks}

\* The workers that list a task.
ListingWorkers(tid) == {l[1] : l \in Listings(tid)}

\* Positions of the event stream: of a task, of an attempt, terminal ones.
EventsOf(tid) == {i \in DOMAIN events : events[i].task.tid = tid}
Terminal(i) == Type(events[i]) # "Start"
StartsOf(a) == {i \in DOMAIN events : events[i].att = a /\ ~Terminal(i)}
EndsOf(a) == {i \in DOMAIN events : events[i].att = a /\ Terminal(i)}

\* No worker lists a task twice; every worker has a task.
NoDuplicateListing ==
    \A tid \in ListedTasks : Cardinality(Listings(tid)) = Cardinality(ListingWorkers(tid))
EveryWorkerHasTask == DOMAIN eng.widtasks = eng.workers

\* Positions of the result stream of a task.
ResultsOf(tid) == {i \in DOMAIN results : results[i].task.tid = tid}

\* The terminal events of a task, and the yielded results of a task, in
\* stream order.
TermSeq(tid) ==
    LET Test(e) == Type(e) # "Start" /\ e.task.tid = tid IN SelectSeq(events, Test)
ResultSeq(tid) ==
    LET Test(e) == e.task.tid = tid IN SelectSeq(results, Test)

\* A sequence of terminal events up to and including its first Success.
UntilFirstSuccess(seq) ==
    LET S == {i \in DOMAIN seq : Type(seq[i]) = "Success"}
    IN  IF S = {} THEN seq
        ELSE SubSeq(seq, 1, CHOOSE i \in S : \A j \in S : i <= j)

IsPrefix(a, b) == Len(a) <= Len(b) /\ SubSeq(b, 1, Len(a)) = a

\* The main goroutine has left its loop.
LoopExited == mpc \in {"close_out", "close_ev", "exit"}

\* ----------------------------------------------------------------- claims
\* C1 (as stated): when the run ends (the event channel is closed), the
\* done count of every TaskID equals the number of workers that list it.
C1_DoneEqualsListingWorkers ==
    eventClosed =>
        \A tid \in ListedTasks : statMap[tid].done = Cardinality(ListingWorkers(tid))

\* C1 (amended): when the run ends, the done count of every TaskID equals
\* the number of listings of the task (a worker that lists a task twice
\* counts twice), and every listing has exactly one terminal event.
C1_DoneEqualsListings ==
    eventClosed =>
        \A tid \in ListedTasks :
            /\ statMap[tid].done = Cardinality(Listings(tid))
            /\ \A l \in Listings(tid) :
                   Cardinality({i \in DOMAIN events :
                                   /\ Terminal(i)
                                   /\ events[i].task = eng.widtasks[l[1]][l[2]]}) = 1

\* C1 witness: a finished run of an engine in which a task is listed by
\* two workers and has already succeeded when its second attempt ends.
C1_Witness ==
    /\ eventClosed
    /\ \E tid \in ListedTasks :
           /\ Cardinality(ListingWorkers(tid)) = 2
           /\ statMap[tid].done = 2
           /\ \E i, j \in EventsOf(tid) :
                  i < j /\ Type(events[i]) = "Success" /\ Terminal(j)

C3_NoSendOnClosedOutput ==
    EveryWorkerHasTask =>
        /\ ~panicked
        /\ outputClosed =>
               /\ boot = Len(bootSeq(eng.workersList, 1))
               /\ \A x \in InstancesOf(eng) : wk[x].pc \in {"recv", "exit"}

\* The part of C3 that holds: no worker goroutine is sending or will send
\* an output once the output channel is closed.
C3_WorkersQuietAtClose ==
    outputClosed => \A x \in InstancesOf(eng) : wk[x].pc \in {"recv", "exit"}

\* C4: if no Work call returns a nil Result, the event channel is
\* eventually closed; and the main goroutine has left its loop only if
\* every task is completed, and waits for an output only if some is not.
C4_Terminates ==
    /\ <>(eventClosed \/ nilReturned)
    /\ [](LoopExited => completed(statMap))
    /\ [](mpc = "recv" => ~completed(statMap))

\* What holds of C4: a run that neither gets a nil Result nor panics closes
\* the event channel, and the loop exits exactly on completion.
C4_TerminatesUnlessPanic ==
    /\ <>(eventClosed \/ nilReturned \/ panicked)
    /\ [](LoopExited => completed(statMap))
    /\ [](mpc = "recv" => ~completed(statMap))

\* C5: in mode FirstSuccessOrLastResult a task never has two results, a
\* result of a task is its first Success event if it has one and else its
\* last terminal event, and when the result channel is closed every task
\* that was attempted has exactly one result.
C5_OneResultPerTask ==
    mode = "FirstSuccessOrLastResult" =>
        \A tid \in ListedTasks :
            LET want == UntilFirstSuccess(TermSeq(tid))
            IN  /\ Cardinality(ResultsOf(tid)) <= 1
                /\ \A i \in ResultsOf(tid) : results[i] = want[Len(want)]
                /\ (resultClosed /\ TermSeq(tid) # <<>>) =>
                       Cardinality(ResultsOf(tid)) = 1

\* C5 witness: a finished run in which a task was attempted twice without
\* success and has a result.
C5_Witness ==
    /\ mode = "FirstSuccessOrLastResult" /\ resultClosed
    /\ \E tid \in ListedTasks :
           /\ Len(TermSeq(tid)) >= 2
           /\ \A k \in DOMAIN TermSeq(tid) : Type(TermSeq(tid)[k]) # "Success"
           /\ ResultsOf(tid) # {}

\* C6: in mode ResultsUntilFirstSuccess the results of a task are, in
\* stream order, its terminal events up to and including its first
\* Success: a prefix of them while the run lasts, all of them when the
\* result channel is closed.
C6_ResultsUntilFirstSuccess ==
    mode = "ResultsUntilFirstSuccess" =>
        \A tid \in ListedTasks :
            /\ IsPrefix(ResultSeq(tid), UntilFirstSuccess(TermSeq(tid)))
            /\ resultClosed => ResultSeq(tid) = UntilFirstSuccess(TermSeq(tid))

\* C6 witness: a finished run in which a task failed, then succeeded, and
\* had a later terminal event that was not yielded.
C6_Witness ==
    /\ mode = "ResultsUntilFirstSuccess" /\ resultClosed
    /\ \E tid \in ListedTasks :
           /\ Len(ResultSeq(tid)) = 2
           /\ Len(TermSeq(tid)) = 3

\* C7: in mode SuccessOrErrorResults no yielded result is a cancellation,
\* and every Success or Error event received so far is yielded or is the
\* one being sent on the result channel.
C7_SuccessOrError ==
    mode = "SuccessOrErrorResults" =>
        /\ \A i \in DOMAIN results : ~IsCanceledErr(Error(results[i].res))
        /\ \A i \in DOMAIN events :
               Type(events[i]) \in {"Success", "Error"} =>
                   \/ \E j \in DOMAIN results : results[j] = events[i]
                   \/ fpc = "send" /\ fres = events[i]
        /\ resultClosed => fpc # "send"

\* C7 witness: a finished run with a Canceled event and a yielded result.
C7_Witness ==
    /\ mode = "SuccessOrErrorResults" /\ resultClosed
    /\ \E i \in DOMAIN events : Type(events[i]) = "Canceled"
    /\ results # <<>>

\* C8: in mode AllResults no Start event is forwarded, a task never has
\* more results than its done count, and when the result channel is closed
\* it has exactly as many.
C8_AllResults ==
    mode = "AllResults" =>
        /\ \A i \in DOMAIN results : results[i].res # NilResult
        /\ \A tid \in ListedTasks :
               /\ Cardinality(ResultsOf(tid)) <= statMap[tid].done
               /\ resultClosed => Cardinality(ResultsOf(tid)) = statMap[tid].done

\* C8 witness: a finished run that yielded a Canceled result of a task
\* done twice.
C8_Witness ==
    /\ mode = "AllResults" /\ resultClosed
    /\ \E i \in DOMAIN results :
           /\ Type(results[i]) = "Canceled"
           /\ statMap[results[i].task.tid].done = 2

\* C9 (as stated): once a Success event of a task has appeared, every later
\* event of the task is a Canceled or an Error event.  Stated for the
\* engines in which no worker lists a task twice.
C9_OnlyCanceledOrErrorAfterSuccess ==
    \A i, j \in DOMAIN events :
        (/\ NoDuplicateListing
         /\ i < j
         /\ Type(events[i]) = "Success"
         /\ events[j].task.tid = events[i].task.tid)
        => Type(events[j]) \in {"Canceled", "Error"}

\* C9 (amended): once a Success event of a task has appeared, the task's
\* context is cancelled and every later event of the task is a Start event
\* or a terminal event whose snapshot has success >= 1: a Canceled, an
\* Error, or a further Success, whose snapshot has success >= 2.
C9_AfterSuccess ==
    \A i, j \in DOMAIN events :
        (/\ i < j
         /\ Type(events[i]) = "Success"
         /\ events[j].task.tid = events[i].task.tid)
        => /\ events[i].task.tid \in taskcancel
           /\ \/ Type(events[j]) = "Start"
              \/ /\ events[j].stat.success >= 1
                 /\ Type(events[j]) = "Success" => events[j].stat.success >= 2

\* C9 witness: a Success event of a task followed by a Canceled event of
\* the same task.
C9_Witness ==
    \E i, j \in DOMAIN events :
        /\ i < j
        /\ Type(events[i]) = "Success"
        /\ events[j].task.tid = events[i].task.tid
        /\ Type(events[j]) = "Canceled"

\* C10: if the caller's context is not cancelled and no Work call returned
\* context.Canceled with its context not cancelled, every Canceled event of
\* a task comes after a Success event of that task.
C10_CanceledAfterSuccess ==
    (~parentDone /\ ~spurious) =>
        \A j \in DOMAIN events :
            Type(events[j]) = "Canceled" =>
                \E i \in DOMAIN events :
                    /\ i < j
                    /\ Type(events[i]) = "Success"
                    /\ events[i].task.tid = events[j].task.tid

\* C10 witness: such a run with a Canceled event.
C10_Witness ==
    /\ ~parentDone /\ ~spurious
    /\ \E j \in DOMAIN events : Type(events[j]) = "Canceled"

\* C11: the first Success event of a task carries the snapshot success = 1
\* and every later Success event of the task carries success >= 2 (the k-th
\* one carries success = k); the final success count of a task is the
\* number of its Success events.
C11_FirstSuccessSnapshot ==
    \A tid \in ListedTasks :
        LET S == {i \in EventsOf(tid) : Type(events[i]) = "Success"}
        IN  /\ \A i \in S :
                   /\ events[i].stat.success = Cardinality({j \in S : j <= i})
                   /\ (\A j \in S : i <= j) => events[i].stat.success = 1
                   /\ (\E j \in S : j < i) => events[i].stat.success >= 2
            /\ eventClosed => statMap[tid].success = Cardinality(S)

\* C11 witness: a finished run in which a task failed first and then
\* succeeded twice.
C11_Witness ==
    /\ eventClosed
    /\ \E tid \in ListedTasks :
           /\ statMap[tid].success = 2
           /\ \E i, j, k \in EventsOf(tid) :
                  /\ i < j /\ j < k
                  /\ Type(events[i]) = "Error"
                  /\ Type(events[j]) = "Success"
                  /\ Type(events[k]) = "Success"

PickKey(statmap, t) ==
    <<statmap[t.tid].success, statmap[t.tid].doing, statmap[t.tid].todo, t.tid>>
LexLess(a, b) ==
    \E k \in 1 .. 4 : a[k] < b[k] /\ \A h \in 1 .. (k - 1) : a[h] = b[h]

\* C13: pick returns -1 for the empty list and otherwise the index of a
\* task whose tuple (success, doing, todo, taskID) is lexicographically
\* smallest, the lowest index among the tasks with that tuple.
C13_PickLexMin ==
    ret # <<>> =>
        LET n == ret[1]
            ts == call.ts
            key(j) == PickKey(call.statmap, ts[j + 1])
        IN  IF ts = <<>> THEN n = -1
            ELSE /\ n \in 0 .. (Len(ts) - 1)
                 /\ \A j \in 0 .. (Len(ts) - 1) :
                        /\ ~LexLess(key(j), key(n))
                        /\ key(j) = key(n) => n <= j

\* C13 witness: pick returned the second of three tasks: the first has the
\* same success and doing counts but more todo, the third has the TaskID of
\* the second.
C13_Witness ==
    /\ ret = <<1>>
    /\ Len(call.ts) = 3
    /\ call.ts[3].tid = call.ts[2].tid
    /\ call.statmap[call.ts[1].tid].success = call.statmap[call.ts[2].tid].success
    /\ call.statmap[call.ts[1].tid].doing = call.statmap[call.ts[2].tid].doing
    /\ call.statmap[call.ts[1].tid].todo > call.statmap[call.ts[2].tid].todo

\* C14: whenever the main goroutine is between two of its steps (it has
\* handled an output, or is about to send an event or an input), the
\* status map has exactly the TaskIDs of the engine's mapping and for each
\* of them todo + doing + done is the number of its listings.
C14_CountsSumToListings ==
    /\ DOMAIN statMap = ListedTasks
    /\ \A tid \in ListedTasks :
           statMap[tid].todo + statMap[tid].doing + statMap[tid].done
               = Cardinality(Listings(tid))

\* C14 witness: the main goroutine waits for an output while a task listed
\* by two workers has one attempt done and one in progress.
C14_Witness ==
    /\ mpc = "recv" /\ NoDuplicateListing
    /\ \E tid \in ListedTasks :
           /\ Cardinality(Listings(tid)) = 2
           /\ statMap[tid].doing = 1
           /\ statMap[tid].done = 1

\* C15: in every state of a run the counts todo, doing, done and success
\* of every TaskID are non-negative and success <= done.
C15_CountsNonNegative ==
    \A tid \in DOMAIN statMap :
        /\ statMap[tid].todo >= 0
        /\ statMap[tid].doing >= 0
        /\ statMap[tid].done >= 0
        /\ statMap[tid].success >= 0
        /\ statMap[tid].success <= statMap[tid].done

\* C15 witness: a task whose counts are at their limits: none to do, none
\* in progress, two attempts done and both successful, while another task
\* has failed attempts only.
C15_Witness ==
    \E tid, tid2 \in DOMAIN statMap :
        /\ statMap[tid].todo = 0 /\ statMap[tid].doing = 0
        /\ statMap[tid].done = 2 /\ statMap[tid].success = 2
        /\ statMap[tid2].done >= 1 /\ statMap[tid2].success = 0

\* The events of a worker instance, in stream order.
InstSeq(x) ==
    LET Test(e) == e.wid = x[1] /\ e.inst = x[2] IN SelectSeq(events, Test)

InFlight(wid) ==
    Cardinality({x \in InstancesOf(eng) :
                    x[1] = wid /\ wk[x].pc \in {"start", "work", "out"}})
        + (IF mpc = "send" /\ mo.wid = wid THEN 1 ELSE 0)

\* C17: the attempts in flight of a worker are never more than its
\* instances; when the main goroutine sends a job, the input channel of
\* the worker is open and an instance of the worker is reading it; and the
\* send always completes.
C17_DispatchBounded ==
    /\ [](\A k \in DOMAIN eng.workersList :
              InFlight(eng.workersList[k].wid) <= eng.workersList[k].instances)
    /\ [](mpc = "send" =>
              /\ mo.wid \in inputc
              /\ \E x \in InstancesOf(eng) : x[1] = mo.wid /\ wk[x].pc = "recv")
    /\ ((mpc = "send") ~> (mpc # "send"))

\* C17 witness: a worker with two instances has one job in an instance,
\* whose Work call has returned, and a second one being sent.
C17_Witness ==
    /\ mpc = "send"
    /\ \E k \in DOMAIN eng.workersList :
           /\ eng.workersList[k].wid = mo.wid
           /\ eng.workersList[k].instances = 2
           /\ InFlight(mo.wid) = 2
    /\ \E x \in InstancesOf(eng) : x[1] = mo.wid /\ wk[x].pc = "out"

\* The retention predicate of a mode.
Retained(m, e) ==
    CASE m = "AllResults" -> IsResult(e)
      [] m = "SuccessOrErrorResults" -> IsSuccessOrError(e)
      [] m = "ResultsUntilFirstSuccess" -> IsResultUntilFirstSuccess(e)
      [] m = "FirstSuccessOrLastResult" -> IsFirstSuccessOrLastResult(e)

\* C18: the results delivered by Execute, followed by the one being sent,
\* are the events received so far that satisfy the retention predicate of
\* the mode, in the order of the event stream; and the result channel is
\* closed only when the event channel is closed and every retained result
\* has been delivered.
C18_ResultsAreRetainedEvents ==
    mode \in Modes =>
        LET Keep(e) == Retained(mode, e)
            want == SelectSeq(events, Keep)
            sending == IF fpc = "send" THEN <<fres>> ELSE <<>>
        IN  /\ results \o sending = want
            /\ resultClosed => eventClosed /\ fpc = "exit" /\ results = want
            /\ fpc = "exit" => resultClosed

\* C18 witness: the result channel is closed after two results of
\* different tasks were delivered and a terminal event was not retained.
C18_Witness ==
    /\ mode \in Modes /\ resultClosed
    /\ Len(results) = 2
    /\ results[1].task.tid # results[2].task.tid
    /\ \E i \in DOMAIN events :
           Type(events[i]) # "Start" /\ ~Retained(mode, events[i])

\* C19: a call of Execute or ExecuteEvents on a nil engine returns the
\* error "nil engine", also when the context is nil too; on an engine with
\* a nil context it returns "nil context"; in both cases no run is
\* started: no channel exists and no goroutine.  Any other call returns no
\* error and starts a run.
C19_NilChecks ==
    ret # <<>> =>
        /\ call.eng = NilPtr => ret = <<"nil engine">>
        /\ (call.eng # NilPtr /\ call.ctx = NilPtr) => ret = <<"nil context">>
        /\ (call.eng # NilPtr /\ call.ctx # NilPtr) => ret = <<"nil">>
        /\ IF ret # <<"nil">>
           THEN /\ runs = 0 /\ mpc = "none" /\ fpc = "none"
                /\ inputc = {} /\ DOMAIN wk = {}
           ELSE /\ runs = 1 /\ mpc # "none"
                /\ fpc = (IF call.fn = "Execute" THEN "recv" ELSE "none")
                /\ inputc = call.eng[1].workers
                /\ DOMAIN wk = InstancesOf(call.eng[1])

\* C19 witness: Execute has returned from a call with a nil engine and a
\* nil context.
C19_Witness ==
    /\ ret # <<>>
    /\ call.fn = "Execute"
    /\ call.eng = NilPtr /\ call.ctx = NilPtr

\* C20: NewEngine fails if and only if a WorkerID occurs twice in the
\* worker list, or a worker has instances < 1 or > 100, or a worker has a
\* nil Work, or the mapping has a non-empty task list for an id of no
\* worker; when it succeeds, the engine keeps the worker list and exactly
\* the entries of the mapping with a non-empty list.
C20_ConstructionFailsIff ==
    ret # <<>> =>
        LET ws == call.ws
            wts == call.wts
            wids == {ws[k].wid : k \in DOMAIN ws}
            duplicate == \E i, j \in DOMAIN ws : i < j /\ ws[i].wid = ws[j].wid
            badInstances ==
                \E k \in DOMAIN ws : ws[k].instances < 1 \/ ws[k].instances > 100
            nilWork == \E k \in DOMAIN ws : ~ws[k].work
            undefined ==
                \E wid \in DOMAIN wts : wts[wid] # <<>> /\ wid \notin wids
            nonEmpty == {wid \in DOMAIN wts : wts[wid] # <<>>}
        IN  /\ (ret[1].err # NoError) <=>
                   (duplicate \/ badInstances \/ nilWork \/ undefined)
            /\ ret[1].err = NoError =>
                   /\ ret[1].workersList = ws
                   /\ ret[1].workers = wids
                   /\ DOMAIN ret[1].widtasks = nonEmpty
                   /\ \A wid \in nonEmpty : ret[1].widtasks[wid] = wts[wid]

\* C20 witness: NewEngine has built an engine from two workers, one of
\* them with 100 instances, and a mapping with a list of two tasks for one
\* worker, an empty list for the other and an empty list for the id of no
\* worker.
C20_Witness ==
    /\ ret # <<>> /\ call.fn = "NewEngine"
    /\ ret[1].err = NoError
    /\ Len(call.ws) = 2
    /\ \E k \in DOMAIN call.ws : call.ws[k].instances = 100
    /\ DOMAIN call.wts = {"w1", "w2", "w3"}
    /\ call.wts["w3"] = <<>>
    /\ DOMAIN ret[1].widtasks = {"w1"}
    /\ Len(ret[1].widtasks["w1"]) = 2

\* The faults of the k-th worker of a list, in the order NewEngine tests
\* them, and the first worker with a fault.
WorkerFault(ws, k) ==
    IF \E i \in 1 .. (k - 1) : ws[i].wid = ws[k].wid THEN "duplicate worker"
    ELSE IF ws[k].instances < 1 \/ ws[k].instances > 100
         THEN "instances must be in 1..100 range"
    ELSE IF ~ws[k].work THEN "work function cannot be nil"
    ELSE "none"
FaultyWorkers(ws) == {k \in DOMAIN ws : WorkerFault(ws, k) # "none"}

\* C21: if some worker of the list has a fault, NewEngine reports the
\* fault of the first such worker (duplicate before instances before nil
\* Work) with its WorkerID, whatever the mapping holds; otherwise, if the
\* mapping has non-empty lists for ids of no worker, it reports one of
\* these ids.
C21_FirstFailureReported ==
    ret # <<>> =>
        LET ws == call.ws
            wts == call.wts
            bad == FaultyWorkers(ws)
            undefined == {wid \in DOMAIN wts :
                             wts[wid] # <<>> /\ wid \notin {ws[k].wid : k \in DOMAIN ws}}
        IN  IF bad # {}
            THEN LET k == CHOOSE i \in bad : \A j \in bad : i <= j
                 IN  ret[1].err = <<WorkerFault(ws, k), ws[k].wid>>
            ELSE IF undefined # {}
                 THEN /\ ret[1].err[1] = "tasks for undefined worker"
                      /\ ret[1].err[2] \in undefined
            ELSE ret[1].err = NoError

\* C21 witness: the second worker repeats the id of the first, has 0
\* instances and a nil Work, and the mapping has a list for the id of no
\* worker: the duplicate is reported.
C21_Witness ==
    /\ ret # <<>> /\ call.fn = "NewEngine"
    /\ Len(call.ws) = 2
    /\ call.ws[1].wid = call.ws[2].wid
    /\ call.ws[2].instances = 0 /\ ~call.ws[2].work
    /\ "w3" \in DOMAIN call.wts /\ call.wts["w3"] # <<>>
    /\ ret[1].err = <<"duplicate worker", call.ws[1].wid>>

\* C22: Type gives exactly one of Nil, Start, Success, Canceled and Error:
\* Nil for the nil event, Start for an event without result, Success for
\* a result without error, Canceled for a result whose error is
\* context.Canceled or wraps it, and Error for every other result.
C22_TypeClassification ==
    (ret # <<>> /\ call.fn = "Type") =>
        LET p == call.e
            t == ret[1]
        IN  /\ t \in {"Nil", "Start", "Success", "Canceled", "Error"}
            /\ t = "Nil" <=> p = NilPtr
            /\ p # NilPtr =>
                   /\ t = "Start" <=> p[1].res = NilResult
                   /\ t = "Success" <=> p[1].res = "success"
                   /\ t = "Canceled" <=> p[1].res \in {"canceled", "wrapped"}
                   /\ t = "Error" <=> p[1].res \in {"error", "deadline"}

\* C22 witness: Type has returned Canceled for a result whose error wraps
\* context.Canceled.
C22_Witness ==
    /\ call.fn = "Type" /\ ret = <<"Canceled">>
    /\ call.e # NilPtr
    /\ Error(call.e[1].res) # "context.Canceled"
    /\ Unwrap(Error(call.e[1].res)) = "context.Canceled"

\* C23: IsFirstSuccessOrLastResult is true exactly for the events that
\* have a result and either the result has no error and the snapshot has
\* success = 1, or the result has an error and the snapshot has todo = 0,
\* doing = 0 and success = 0; it is false for the nil event and for an
\* event without result.
C23_FirstSuccessOrLastResult ==
    (ret # <<>> /\ call.fn = "IsFirstSuccessOrLastResult") =>
        LET p == call.e
        IN  /\ p = NilPtr => ret[1] = FALSE
            /\ p # NilPtr =>
                   LET e == p[1]
                   IN  ret[1] =
                           /\ e.res # NilResult
                           /\ \/ e.res = "success" /\ e.stat.success = 1
                              \/ /\ e.res # "success"
                                 /\ e.stat.todo = 0
                                 /\ e.stat.doing = 0
                                 /\ e.stat.success = 0

\* C23 witness: the function has returned false for a success whose
\* snapshot has success = 2.
C23_Witness ==
    /\ call.fn = "IsFirstSuccessOrLastResult" /\ ret = <<FALSE>>
    /\ call.e # NilPtr
    /\ call.e[1].res = "success"
    /\ call.e[1].stat.success = 2

\* The workers of the terminal events and of the results, in stream order,
\* and the types of the results.
TermWorkers ==
    LET Test(e) == Type(e) # "Start"
        seq == SelectSeq(events, Test)
    IN  [k \in DOMAIN seq |-> seq[k].wid]
ResultWorkers == [k \in DOMAIN results |-> results[k].wid]
ResultTypes == [k \in DOMAIN results |-> Type(results[k])]

\* C24: one task, four workers of one instance; when the outputs are
\* handled in the order Error (w1), Success (w2), Canceled (w3), Canceled
\* (w4), the results of a finished run are: all four in that order in mode
\* AllResults; the Error then the Success in the modes
\* SuccessOrErrorResults and ResultsUntilFirstSuccess; the Success alone
\* in mode FirstSuccessOrLastResult.
C24_FourWorkersScenario ==
    (resultClosed /\ TermWorkers = <<"w1", "w2", "w3", "w4">>) =>
        CASE mode = "AllResults" ->
                 /\ ResultWorkers = <<"w1", "w2", "w3", "w4">>
                 /\ ResultTypes = <<"Error", "Success", "Canceled", "Canceled">>
          [] mode \in {"SuccessOrErrorResults", "ResultsUntilFirstSuccess"} ->
                 /\ ResultWorkers = <<"w1", "w2">>
                 /\ ResultTypes = <<"Error", "Success">>
          [] mode = "FirstSuccessOrLastResult" ->
                 /\ ResultWorkers = <<"w2">>
                 /\ ResultTypes = <<"Success">>

\* C24 witness: such a run has finished in mode ResultsUntilFirstSuccess.
C24_Witness ==
    /\ eng = FourWorkersEngine
    /\ mode = "ResultsUntilFirstSuccess" /\ resultClosed
    /\ TermWorkers = <<"w1", "w2", "w3", "w4">>
    /\ Len(results) = 2

\* The engine has one worker and its list has distinct TaskIDs.
SingleWorker == Len(eng.workersList) = 1 /\ NoDuplicateListing

\* The jobs handed out so far as pairs <<attempt number, TaskID>>: those
\* of the events, those held by worker goroutines and the one being sent.
Dispatched ==
    {<<events[i].att, events[i].task.tid>> : i \in DOMAIN events}
        \cup {<<wk[x].req.att, wk[x].req.task.tid>> :
                 x \in {y \in DOMAIN wk : wk[y].req # NoInput}}
        \cup (IF mpc = "send" THEN {<<mnext.att, mnext.task.tid>>} ELSE {})

\* The k-th smallest TaskID of the engine's mapping.
KthTask(k) ==
    CHOOSE tid \in ListedTasks : Cardinality({t \in ListedTasks : t <= tid}) = k

C26_InputClosedOnce ==
    /\ \A wid \in eng.workers :
           /\ closes[wid] <= 1
           /\ closes[wid] = 1 <=> wid \notin inputc
           /\ wid \notin inputc => TasksOf(widtasks, wid) = <<>>
    /\ mpc = "send" => mo.wid \in inputc /\ closes[mo.wid] = 0

\* C26 witness: a finished run in which the worker of two instances had a
\* job; its channel was closed once, although the main goroutine found
\* its list empty twice at least (for an idle output and after the job).
C26_Witness ==
    /\ eventClosed
    /\ boot = Len(bootSeq(eng.workersList, 1))
    /\ \E k \in DOMAIN eng.workersList :
           /\ eng.workersList[k].instances = 2
           /\ closes[eng.workersList[k].wid] = 1
           /\ \E i \in DOMAIN events :
                  Type(events[i]) # "Start" /\ events[i].wid = eng.workersList[k].wid

\* C27: when a run has ended (the event channel is closed) the input
\* channel of every worker has been closed and every worker goroutine has
\* left its loop, the workers that have no task included.
C27_InputsClosedAtEnd ==
    eventClosed =>
        /\ inputc = {}
        /\ \A x \in InstancesOf(eng) : wk[x].pc = "exit"

\* The part of C27 that holds: the channels of the workers all of whose
\* idle outputs were received are closed at the end of the run, and their
\* goroutines have left the loop.
C27_ClosedIfIdleReceived ==
    eventClosed =>
        \A k \in 1..boot :
            /\ bootSeq(eng.workersList, 1)[k][1] \notin inputc
            /\ wk[bootSeq(eng.workersList, 1)[k]].pc = "exit"

\* C28: the context of a task is cancelled when the main goroutine is
\* about to send the Success event of the task; so the context of every
\* task with success >= 1 is cancelled, a Success event is in the stream
\* only if the context of its task is cancelled, and a job whose snapshot
\* has success >= 1 carries a cancelled context from its dispatch on.
C28_CancelBeforeSuccessEvent ==
    /\ (mpc = "event" /\ Error(mo.res) = "nil") => mo.task.tid \in taskcancel
    /\ \A tid \in DOMAIN statMap :
           statMap[tid].success >= 1 => tid \in taskcancel
    /\ \A i \in DOMAIN events :
           Type(events[i]) = "Success" => events[i].task.tid \in taskcancel
    /\ (mpc = "send" /\ mnext.stat.success >= 1) => ctxDone(mnext.ctx)
    /\ \A x \in InstancesOf(eng) :
           (wk[x].pc \in {"start", "work", "out"} /\ wk[x].req.stat.success >= 1)
           => ctxDone(wk[x].req.ctx)

\* C28 witness: after the Success event of a task, an attempt at the same
\* task is running; it was dispatched with a snapshot of success >= 1 and
\* the caller's context is not cancelled.
C28_Witness ==
    /\ ~parentDone
    /\ \E x \in InstancesOf(eng) :
           /\ wk[x].pc = "work"
           /\ wk[x].req.stat.success >= 1
           /\ \E i \in DOMAIN events :
                  /\ Type(events[i]) = "Success"
                  /\ events[i].task.tid = wk[x].req.task.tid

\* The step of the main goroutine that selects the next task of worker
\* wid: after the end event of an output of wid, or on the receipt of an
\* output of wid that calls for no end event.
Selects(wid) ==
    \/ mpc = "event" /\ mpc' # "event" /\ mo.wid = wid
    \/ /\ mpc = "recv" /\ mpc' # "event"
       /\ \/ /\ boot' = boot + 1
             /\ bootSeq(eng.workersList, 1)[boot + 1][1] = wid
          \/ \E x \in InstancesOf(eng) :
                 x[1] = wid /\ wk[x].pc = "out" /\ wk'[x].pc # "out"

\* The selecting step hands out one task of the list ts of worker wid: the
\* task leaves the list, its todo becomes a doing, and one job, with the
\* snapshot of the task, is ready to be sent to wid.
DispatchesOne(wid, ts) ==
    /\ mpc' = "send" /\ mo'.wid = wid
    /\ natt' = natt + 1 /\ mnext'.att = natt'
    /\ \E n \in DOMAIN ts :
           /\ mnext'.task = ts[n]
           /\ Len(widtasks'[wid]) = Len(ts) - 1
           /\ {widtasks'[wid][i] : i \in DOMAIN widtasks'[wid]}
                  = {ts[i] : i \in DOMAIN ts} \ {ts[n]}
           /\ statMap'[ts[n].tid] =
                  [statMap[ts[n].tid] EXCEPT !.todo = @ - 1, !.doing = @ + 1]
           /\ \A tid \in DOMAIN statMap \ {ts[n].tid} : statMap'[tid] = statMap[tid]
           /\ mnext'.stat = statMap'[ts[n].tid]
    /\ \A w2 \in DOMAIN widtasks \ {wid} : widtasks'[w2] = widtasks[w2]
    /\ inputc' = inputc /\ closes' = closes

\* The selecting step hands out nothing and closes the input channel of
\* worker wid if it is open.
ClosesOnly(wid) ==
    /\ mpc' # "send"
    /\ natt' = natt /\ widtasks' = widtasks /\ statMap' = statMap
    /\ inputc' = inputc \ {wid}
    /\ closes' = IF wid \in inputc THEN [closes EXCEPT ![wid] = @ + 1] ELSE closes

\* The instances of worker wid that are reading the input channel.
IdleInstances(wid) ==
    {x \in InstancesOf(eng) : x[1] = wid /\ wk[x].pc = "recv"}

\* The outputs of worker wid that call for a selecting step to come: the
\* idle outputs that the bootstrap goroutine has still to send, and the
\* output that the main goroutine is handling.
PendingOutputs(wid) ==
    Cardinality({k \in (boot + 1) .. Len(bootSeq(eng.workersList, 1)) :
                    bootSeq(eng.workersList, 1)[k][1] = wid})
        + (IF mpc \in {"event", "send"} /\ mo.wid = wid THEN 1 ELSE 0)

\* C29: a selecting step for worker wid hands out exactly one task if the
\* remaining list of wid is not empty, and else hands out nothing and
\* closes the input channel of wid if it is open; and while the list of
\* wid is not empty, the instances of wid that wait for a job are no more
\* than the outputs of wid that will each be answered by a selecting step
\* (the job of one instance's output may be taken by another instance).
C29_DispatchOrClose ==
    /\ [][\A wid \in eng.workers :
            Selects(wid) =>
                IF TasksOf(widtasks, wid) # <<>>
                THEN DispatchesOne(wid, TasksOf(widtasks, wid))
                ELSE ClosesOnly(wid)]_vars
    /\ [](\A wid \in eng.workers :
              TasksOf(widtasks, wid) # <<>> =>
                  Cardinality(IdleInstances(wid)) <= PendingOutputs(wid))

\* C29 witness: a job is being sent to a worker that has a task left, and
\* the input channel of another worker is closed: both branches were
\* taken.
C29_Witness ==
    /\ mpc = "send"
    /\ TasksOf(widtasks, mo.wid) # <<>>
    /\ Cardinality(IdleInstances(mo.wid)) = 1
    /\ PendingOutputs(mo.wid) = 1
    /\ \E wid \in eng.workers : closes[wid] = 1

\* C30: for one status map and two lists of the same distinct TaskIDs in
\* two orders, pick selects the same TaskID in both (and -1 in both if
\* they are empty); the removal of the selected task by swap-and-pop
\* leaves two lists of the same TaskIDs, so the next pick agrees again.
C30_PickOrderIndependent ==
    /\ {call.ts[k].tid : k \in DOMAIN call.ts} = {call.ts2[k].tid : k \in DOMAIN call.ts2}
    /\ Len(call.ts) = Len(call.ts2)
    /\ ret # <<>> =>
           IF call.ts = <<>> THEN ret[1].n = -1 /\ ret[1].n2 = -1
           ELSE /\ ret[1].n \in 0 .. (Len(call.ts) - 1)
                /\ ret[1].n2 \in 0 .. (Len(call.ts2) - 1)
                /\ call.ts[ret[1].n + 1].tid = call.ts2[ret[1].n2 + 1].tid

\* C30 witness: after a removal that moved the last task of the first
\* list to its head, the two lists hold the two remaining tasks in
\* opposite orders and pick returned different indexes.
C30_Witness ==
    /\ ret # <<>>
    /\ Len(call.ts) = 2
    /\ call.ts[1].pos = 3
    /\ call.ts[1].tid = call.ts2[2].tid
    /\ ret[1].n # ret[1].n2

\* The Success events of a task in a stream.
SuccessSeq(seq, tid) ==
    LET Test(e) == Type(e) = "Success" /\ e.task.tid = tid IN SelectSeq(seq, Test)

\* C31: the k-th Success event of a task has success = k in its snapshot
\* (there may be several).  In the modes AllResults and
\* SuccessOrErrorResults the Success results of a task are its Success
\* events: a prefix of them while the run lasts, all of them when the
\* result channel is closed.  In the modes ResultsUntilFirstSuccess and
\* FirstSuccessOrLastResult a task has at most one Success result, its
\* first Success event.
C31_MultipleSuccess ==
    mode \in Modes =>
        \A tid \in ListedTasks :
            LET se == SuccessSeq(events, tid)
                sr == SuccessSeq(results, tid)
            IN  /\ \A k \in DOMAIN se : se[k].stat.success = k
                /\ IsPrefix(sr, se)
                /\ mode \in {"AllResults", "SuccessOrErrorResults"} =>
                       (resultClosed => sr = se)
                /\ mode \in {"ResultsUntilFirstSuccess", "FirstSuccessOrLastResult"} =>
                       /\ Len(sr) <= 1
                       /\ (resultClosed /\ se # <<>>) => sr = <<se[1]>>

\* C31 witness: two attempts at a task were started before the first of
\* them succeeded, the caller's context is not cancelled, both ended in a
\* Success and both Success results were yielded.
C31_Witness ==
    /\ mode \in {"AllResults", "SuccessOrErrorResults"} /\ resultClosed /\ ~parentDone
    /\ \E i, j, k, l \in DOMAIN events :
           /\ i < k /\ j < k /\ k < l
           /\ Type(events[i]) = "Start" /\ Type(events[j]) = "Start"
           /\ Type(events[k]) = "Success" /\ Type(events[l]) = "Success"
           /\ events[i].att = events[k].att /\ events[j].att = events[l].att
           /\ events[k].task.tid = events[l].task.tid
           /\ \E a, b \in DOMAIN results :
                  a < b /\ results[a] = events[k] /\ results[b] = events[l]

\* The TaskIDs listed by a worker in the engine's mapping, and the sum of
\* todo + doing over a set of TaskIDs.
OwnTasks(wid) ==
    {TasksOf(eng.widtasks, wid)[k].tid : k \in DOMAIN TasksOf(eng.widtasks, wid)}
RECURSIVE SumTodoDoing(_, _)
SumTodoDoing(sm, S) ==
    IF S = {} THEN 0
    ELSE LET tid == CHOOSE t \in S : TRUE
         IN  sm[tid].todo + sm[tid].doing + SumTodoDoing(sm, S \ {tid})
Measure(sm, wid) == SumTodoDoing(sm, OwnTasks(wid))

\* The main goroutine receives an output with a Result and updates the
\* status map for it.
ProcessesCompletion == mpc = "recv" /\ mpc' = "event"

\* C32: the step in which the main goroutine handles the Result of an
\* attempt at a task decreases by one the sum of todo + doing over the
\* tasks of every worker that lists the task; every other step leaves
\* the sums as they are; the sums are never negative, and the loop
\* condition (not completed) holds exactly while some sum is positive.
C32_MeasureDecreases ==
    /\ [][\A wid \in eng.workers :
            Measure(statMap', wid) =
                Measure(statMap, wid)
                    - (IF ProcessesCompletion /\ mo'.task.tid \in OwnTasks(wid)
                       THEN 1 ELSE 0)]_vars
    /\ [](\A wid \in eng.workers : Measure(statMap, wid) >= 0)
    /\ [](completed(statMap) <=> \A wid \in eng.workers : Measure(statMap, wid) = 0)

\* C32 witness: the main goroutine has handled the Result of the attempt
\* of one worker at a task listed by two workers; the other listing is
\* still to do, and the sum of both workers went from 2 to 1.
C32_Witness ==
    /\ mpc = "event"
    /\ \E w1, w2 \in eng.workers :
           /\ w1 # w2 /\ mo.wid = w1
           /\ mo.task.tid \in OwnTasks(w1) \cap OwnTasks(w2)
           /\ statMap[mo.task.tid] = [todo |-> 1, doing |-> 0, done |-> 1, success |-> 0]
           /\ Measure(statMap, w1) = 1
           /\ Measure(statMap, w2) = 1

\* The jobs handed out so far as triples <<attempt number, WorkerID, Task>>:
\* those of the events, those held by worker goroutines and the one being
\* sent.
Jobs ==
    {<<events[i].att, events[i].wid, events[i].task>> : i \in DOMAIN events}
        \cup {<<wk[x].req.att, x[1], wk[x].req.task>> :
                 x \in {y \in DOMAIN wk : wk[y].req # NoInput}}
        \cup (IF mpc = "send" THEN {<<mnext.att, mo.wid, mnext.task>>} ELSE {})

\* The listings of a worker as Task values: in the engine's mapping, and
\* in the remaining list of the run.
ListedBy(wid) ==
    {TasksOf(eng.widtasks, wid)[k] : k \in DOMAIN TasksOf(eng.widtasks, wid)}
Remaining(wid) ==
    {TasksOf(widtasks, wid)[k] : k \in DOMAIN TasksOf(widtasks, wid)}

\* C33: a job of a worker carries a task of the worker's own list; two
\* jobs never carry the same listing; and the listings of a worker are
\* split between its remaining list, which holds each of them once at
\* most, and the jobs handed out: a listing handed out is not in the
\* remaining list any more.
C33_OwnListingsOnce ==
    /\ \A j \in Jobs : j[3] \in ListedBy(j[2])
    /\ \A j1, j2 \in Jobs : j1[3] = j2[3] => j1[1] = j2[1]
    /\ \A wid \in eng.workers :
           /\ Cardinality(Remaining(wid)) = Len(TasksOf(widtasks, wid))
           /\ Remaining(wid) \cap {j[3] : j \in Jobs} = {}
           /\ Remaining(wid) \cup {j[3] : j \in {h \in Jobs : h[2] = wid}}
                  = ListedBy(wid)

\* C33 witness: a worker that lists three tasks was handed the first of
\* its list, then the third, which had taken the place of the first; the
\* second is the one that remains.
C33_Witness ==
    \E wid \in eng.workers :
        /\ Len(TasksOf(eng.widtasks, wid)) = 3
        /\ Remaining(wid) = {eng.widtasks[wid][2]}
        /\ \E j1, j2 \in Jobs :
               /\ j1[1] < j2[1]
               /\ j1[3] = eng.widtasks[wid][1]
               /\ j2[3] = eng.widtasks[wid][3]

\* C34: when the main goroutine has left its loop (it is about to close,
\* or has closed, the output and event channels), no worker goroutine has
\* a Start event to send or a job in hand, and every job handed out has
\* its Start event in the stream.
C34_NoStartAfterClose ==
    LoopExited =>
        /\ \A x \in InstancesOf(eng) :
               wk[x].pc \notin {"start", "work", "out"} /\ wk[x].req = NoInput
        /\ \A a \in 1 .. natt : Cardinality(StartsOf(a)) = 1

\* C34 witness: the event channel is closed after two attempts made by two
\* goroutines, the second started while the first was in progress.
C34_Witness ==
    /\ eventClosed /\ natt = 2
    /\ \E i, j \in DOMAIN events :
           /\ i + 1 = j
           /\ Type(events[i]) = "Start" /\ Type(events[j]) = "Start"
           /\ <<events[i].wid, events[i].inst>> # <<events[j].wid, events[j].inst>>

\* C35: in a run of an engine that has no task at all no event is sent and
\* no goroutine panics.
C35_NoTaskNoFault ==
    ListedTasks = {} => events = <<>> /\ ~panicked

\* The part of C35 that holds: in a run of an engine that has no task the
\* main goroutine receives no idle output, hands out no job, no event and
\* no result is sent, and the main goroutine is never waiting for an
\* output.
C35_NoTaskNoEvent ==
    ListedTasks = {} =>
        /\ events = <<>> /\ results = <<>>
        /\ boot = 0 /\ natt = 0
        /\ LoopExited

\* The jobs in the hands of a goroutine: held by a worker goroutine, being
\* sent to one, or being handled by the main goroutine after their output.
InHand(j) ==
    \/ \E x \in DOMAIN wk : wk[x].req # NoInput /\ wk[x].req.att = j[1]
    \/ mpc = "send" /\ mnext.att = j[1]
    \/ mpc = "event" /\ mo.att = j[1]

\* The jobs whose output had a nil Result: they have no terminal event and
\* are in nobody's hands.
Lost(tid) == {j \in Jobs : j[3].tid = tid /\ EndsOf(j[1]) = {} /\ ~InHand(j)}

\* The main goroutine receives the output of a worker goroutine whose Work
\* call returned a nil Result.
ReceivesNil(x) ==
    /\ mpc = "recv"
    /\ wk[x].pc = "out" /\ wk[x].res = NilResult
    /\ wk'[x].pc # "out"

C37_DoneCountsWorkers ==
    \A tid \in ListedTasks :
        LET seq == TermSeq(tid)
            n == Cardinality(ListingWorkers(tid))
        IN  /\ \A k \in DOMAIN seq :
                   /\ seq[k].stat.done = k
                   /\ (seq[k].stat.todo = 0 /\ seq[k].stat.doing = 0) <=> (k = n)
            /\ eventClosed => Len(seq) = n

\* C37 (amended): the same with the number of listings of the task (a
\* worker that lists the task twice counts twice) for the number of
\* workers that list it; while the run lasts the task has at most that
\* many terminal events.
C37_DoneCountsListings ==
    \A tid \in ListedTasks :
        LET seq == TermSeq(tid)
            n == Cardinality(Listings(tid))
        IN  /\ \A k \in DOMAIN seq :
                   /\ seq[k].stat.done = k
                   /\ (seq[k].stat.todo = 0 /\ seq[k].stat.doing = 0) <=> (k = n)
            /\ Len(seq) <= n
            /\ eventClosed => Len(seq) = n

\* C37 witness: a finished run in which a task listed by two workers had
\* two terminal events, the first with an attempt still to do or in
\* progress.
C37_Witness ==
    /\ eventClosed
    /\ \E tid \in ListedTasks :
           /\ Cardinality(ListingWorkers(tid)) = 2
           /\ Len(TermSeq(tid)) = 2
           /\ TermSeq(tid)[1].stat.todo + TermSeq(tid)[1].stat.doing = 1

\* The jobs held by worker goroutines and the one being sent.
JobsInHand ==
    {wk[x].req : x \in {y \in DOMAIN wk : wk[y].req # NoInput}}
        \cup (IF mpc = "send" THEN {mnext} ELSE {})

\* C38: two jobs carry the same context exactly if they are attempts at
\* the same TaskID; the context of a job is cancelled only if an attempt
\* at the task of the job has succeeded or the caller's context is
\* cancelled; and the cancel function of a task is called only in the
\* step that handles a Result without error of an attempt at that task.
C38_OneScopePerTask ==
    /\ [](\A j1, j2 \in JobsInHand :
              (j1.ctx = j2.ctx) <=> (j1.task.tid = j2.task.tid))
    /\ [](\A j \in JobsInHand :
              ctxDone(j.ctx) => parentDone \/ statMap[j.task.tid].success >= 1)
    /\ [][\A tid \in taskcancel' \ taskcancel :
            /\ ProcessesCompletion
            /\ mo'.task.tid = tid
            /\ Error(mo'.res) = "nil"]_vars

\* C38 witness: after the Success event of a task, with the caller's
\* context not cancelled, a worker goroutine is at work on another task
\* and its context is not cancelled.
C38_Witness ==
    /\ ~parentDone
    /\ \E i \in DOMAIN events, x \in InstancesOf(eng) :
           /\ Type(events[i]) = "Success"
           /\ events[i].task.tid \in taskcancel
           /\ wk[x].pc = "work"
           /\ wk[x].req.task.tid # events[i].task.tid
           /\ ~ctxDone(wk[x].req.ctx)

\* C39: if the caller's context is cancelled while the main goroutine is
\* in its loop (in an engine whose workers all have a task), the run still
\* comes to its end, the close of the event channel, unless a Work call
\* returns a nil Result; and at the end every listing has been handed out
\* and every task has done equal to the number of its listings.
C39_RunEndsAfterParentCancel ==
    /\ (parentDone /\ EveryWorkerHasTask /\ ~LoopExited) ~> (eventClosed \/ nilReturned)
    /\ [](eventClosed =>
              \A tid \in ListedTasks : statMap[tid].done = Cardinality(Listings(tid)))

\* The part of C39 that holds: once the caller's context is cancelled the
\* main goroutine still leaves its loop, unless a Work call returns a nil
\* Result; a job handed out after the cancellation carries a cancelled
\* context; and when the loop is left every listing has been handed out,
\* every job has had its Start event and its terminal event, and every
\* task has done equal to the number of its listings.
C39_DispatchGoesOn ==
    /\ parentDone ~> (LoopExited \/ nilReturned)
    /\ [](parentDone => \A j \in JobsInHand : ctxDone(j.ctx))
    /\ [](LoopExited =>
              /\ \A wid \in eng.workers : Remaining(wid) = {}
              /\ \A j \in Jobs :
                     Cardinality(StartsOf(j[1])) = 1 /\ Cardinality(EndsOf(j[1])) = 1
              /\ \A tid \in ListedTasks :
                     statMap[tid].done = Cardinality(Listings(tid)))

====
